---------------------------- MODULE Spec2Model ----------------------------
(***************************************************************************)
(* Camp-director contact crawler: the actor's main program, the candidate  *)
(* extractor and the best-contact selection.                               *)
(*                                                                         *)
(* Strings are sequences of tokens (a token is a run of characters that    *)
(* the code never splits: a word, a dot, a slash, "sp" for white space),   *)
(* so that trimming, URL parsing, splitting on "@" and "." and prefixing a *)
(* scheme are computed as the code computes them.                          *)
(***************************************************************************)
EXTENDS Integers, Sequences, FiniteSets, TLC

VARIABLES
    \* ---- the actor run (main program) ----
    pc,            \* position of the main program
    input,         \* Actor.getInput(): [domains, maxDepth, maxRequestsPerDomain, pageKeywords]
    fallback,      \* what readJsonIfExists returned for the fallback file (NoFile: null)
    world,         \* the web: which URLs answer, and with which page
    domains,       \* const domains (normalizeAndDedupe of input.domains)
    config,        \* const prioritizedKeywords, maxDepth, maxRequestsPerDomain
    domainStates,  \* Map domain -> {emails, candidates, pagesCrawled}
    queue,         \* the crawler's request queue, in insertion order
    seen,          \* unique keys (URLs) ever added to the queue
    running,       \* the pool's tasks: [req, phase], phase "fetch" or "enqueue"
    handled,       \* requests finished (handled or failed), oldest first
    records,       \* items pushed with Actor.pushData, oldest first
    loopIdx,       \* index of the seeding / output loop
    exitCode,      \* process exit status, -1 while the process runs
    \* ---- a direct call of pickBestCandidate ----
    pbState,       \* the DomainState passed in
    pbResult,      \* [called, index]: index of the returned candidate, 0 for null
    \* ---- a direct call of extractDirectorCandidates ----
    exArgs,        \* [page, pageUrl, keywords, siteHostname]
    exResult,      \* [called, raised, list]
    \* ---- a direct call of one of the utility functions ----
    utArgs,        \* [fn, ...]: the function called and its arguments
    utResult,      \* [called, value]
    \* ---- a run of the directory collector ----
    dir            \* [pc, subdirs, idx, all, warnings, written]

mainVars == <<pc, input, fallback, world, domains, config, domainStates, queue, seen,
              running, handled, records, loopIdx, exitCode>>
pickVars == <<pbState, pbResult>>
exVars   == <<exArgs, exResult>>
utilVars == <<utArgs, utResult>>
dirVars  == <<dir>>
vars     == <<mainVars, pickVars, exVars, utilVars, dirVars>>

-----------------------------------------------------------------------------
(* Bounds of the model *)

\* longest candidate sequence handed to a direct pickBestCandidate call
MaxCands == 4
\* how many requests the pool runs at a time (the code allows up to maxConcurrency)
Concurrency == 2
\* most digits in the raw text handed to a direct normalizePhone call
MaxDigits == 12
\* longest list handed to a direct normalizeAndDedupe call
MaxList == 3
\* longest list of directory records handed to a direct dedupeByDomain call
MaxRecords == 3
\* most sub-directories the directory collector discovers
MaxSubdirs == 3
\* most extraction calls made one after another on the module's regexes
MaxCalls == 3

-----------------------------------------------------------------------------
(* Generic sequence helpers *)

Range(s) == { s[i] : i \in 1..Len(s) }

RECURSIVE SeqsUpTo(_, _)
SeqsUpTo(S, n) ==
    IF n = 0 THEN { <<>> }
    ELSE LET shorter == SeqsUpTo(S, n - 1)
         IN  shorter \cup { Append(s, x) : s \in { t \in shorter : Len(t) = n - 1 }, x \in S }

\* Array.from(new Set(list)): first occurrences, in insertion order
RECURSIVE SetOrder(_)
SetOrder(s) ==
    IF Len(s) <= 1 THEN s
    ELSE LET half  == Len(s) \div 2
             left  == SetOrder(SubSeq(s, 1, half))
             right == SetOrder(SubSeq(s, half + 1, Len(s)))
             New(x) == x \notin Range(left)
         IN  left \o SelectSeq(right, New)

RECURSIVE Concat(_)
Concat(ss) == IF ss = <<>> THEN <<>> ELSE Head(ss) \o Concat(Tail(ss))

IsPrefix(p, s) == Len(p) <= Len(s) /\ SubSeq(s, 1, Len(p)) = p

\* String.prototype.includes, on tokens
IsInfix(p, s) ==
    \E i \in 0..(Len(s) - Len(p)) : SubSeq(s, i + 1, i + Len(p)) = p

\* position of the first x in s, Len(s) + 1 when there is none
RECURSIVE IndexOf(_, _)
IndexOf(s, x) ==
    IF s = <<>> THEN 1
    ELSE IF Head(s) = x THEN 1 ELSE 1 + IndexOf(Tail(s), x)

\* String.prototype.split on a one-token separator
RECURSIVE Split(_, _)
Split(s, sep) ==
    LET i == IndexOf(s, sep)
    IN  IF i > Len(s) THEN <<s>>
        ELSE <<SubSeq(s, 1, i - 1)>> \o Split(SubSeq(s, i + 1, Len(s)), sep)

\* Array.prototype.join with a one-token separator
RECURSIVE Join(_, _)
Join(parts, sep) ==
    IF parts = <<>> THEN <<>>
    ELSE IF Len(parts) = 1 THEN parts[1]
    ELSE parts[1] \o <<sep>> \o Join(Tail(parts), sep)

-----------------------------------------------------------------------------
(* Text utilities (extractors.js) *)

\* String.prototype.toLowerCase on one token
LowerTok(t) ==
    CASE t = "Camp"   -> "camp"
      [] t = "ORG"    -> "org"
      [] t = "Jane"   -> "jane"
      [] t = "WWW"    -> "www"
      [] t = "HTTPS:" -> "https:"
      [] OTHER        -> t

toLowerCase(s) == [i \in 1..Len(s) |-> LowerTok(s[i])]

\* String.prototype.trim
RECURSIVE TrimLeft(_)
TrimLeft(s) == IF s # <<>> /\ Head(s) = "sp" THEN TrimLeft(Tail(s)) ELSE s

RECURSIVE TrimRight(_)
TrimRight(s) ==
    IF s # <<>> /\ s[Len(s)] = "sp" THEN TrimRight(SubSeq(s, 1, Len(s) - 1)) ELSE s

trim(s) == TrimRight(TrimLeft(s))

NonEmpty(s) == s # <<>>

\* parts.slice(-2)
LastTwo(parts) == SubSeq(parts, Len(parts) - 1, Len(parts))

getRegistrableDomain(hostname) ==
    IF hostname = <<>> THEN <<>>
    ELSE LET parts == SelectSeq(Split(toLowerCase(hostname), "."), NonEmpty)
         IN  IF Len(parts) <= 2 THEN Join(parts, ".") ELSE Join(LastTwo(parts), ".")

\* e.split('@')[1]; <<>> stands for undefined (and for an empty host)
EmailHost(email) ==
    LET pieces == Split(toLowerCase(email), "@")
    IN  IF Len(pieces) < 2 THEN <<>> ELSE pieces[2]

\* a variant: the hosts themselves are compared
emailIsOnDomain_ExactHost(email, siteHostname) ==
    LET host == EmailHost(email)
    IN  IF host = <<>> THEN FALSE ELSE host = toLowerCase(siteHostname)

emailIsOnDomain(email, siteHostname) ==
    LET host == EmailHost(email)
    IN  IF host = <<>> THEN FALSE
        ELSE getRegistrableDomain(host) = getRegistrableDomain(siteHostname)

filterEmailsToDomain(emails, siteHostname) ==
    LET OnDomain(e) == emailIsOnDomain(e, siteHostname)
    IN  SelectSeq(emails, OnDomain)

normalizeAndDedupe(list) ==
    LET truthy == SelectSeq(list, NonEmpty)
    IN  SetOrder([i \in 1..Len(truthy) |-> trim(truthy[i])])

\* a phone text is a sequence of characters
DigitChars == {"0", "1", "2", "3", "4", "5", "6", "7", "8", "9"}

IsDigit(ch) == ch \in DigitChars

\* a variant: eleven digits are formatted whatever the first one is
normalizePhone_AnyLead(raw) ==
    LET digits == SelectSeq(raw, IsDigit)
    IN  IF Len(digits) = 11
        THEN <<"+", "1", " ", "(">> \o SubSeq(digits, 2, 4) \o <<")", " ">>
             \o SubSeq(digits, 5, 7) \o <<"-">> \o SubSeq(digits, 8, Len(digits))
        ELSE IF Len(digits) = 10
        THEN <<"(">> \o SubSeq(digits, 1, 3) \o <<")", " ">>
             \o SubSeq(digits, 4, 6) \o <<"-">> \o SubSeq(digits, 7, Len(digits))
        ELSE <<>>

\* normalizePhone; <<>> stands for undefined
normalizePhone(raw) ==
    IF raw = <<>> THEN <<>>
    ELSE LET digits == SelectSeq(raw, IsDigit)
         IN  IF Len(digits) = 11 /\ Head(digits) = "1"
             THEN <<"+", "1", " ", "(">> \o SubSeq(digits, 2, 4) \o <<")", " ">>
                  \o SubSeq(digits, 5, 7) \o <<"-">> \o SubSeq(digits, 8, Len(digits))
             ELSE IF Len(digits) = 10
             THEN <<"(">> \o SubSeq(digits, 1, 3) \o <<")", " ">>
                  \o SubSeq(digits, 4, 6) \o <<"-">> \o SubSeq(digits, 7, Len(digits))
             ELSE <<>>

-----------------------------------------------------------------------------
(* URLs *)

Slashes == <<"/", "/">>

IsScheme(t) == LowerTok(t) \in {"https:", "http:"}

RECURSIVE SkipSlashes(_)
SkipSlashes(s) == IF s # <<>> /\ Head(s) = "/" THEN SkipSlashes(Tail(s)) ELSE s

\* new URL(s) for an http(s) URL: [ok |-> FALSE] when the constructor throws
\* (no scheme, an empty host, white space in the host)
ParseUrl(s) ==
    IF s = <<>> \/ ~IsScheme(Head(s)) THEN [ok |-> FALSE]
    ELSE LET rest == SkipSlashes(Tail(s))
             cut  == IndexOf(rest, "/")
             host == SubSeq(rest, 1, cut - 1)
             path == SubSeq(rest, cut, Len(rest))
         IN  IF host = <<>> \/ "sp" \in Range(host) THEN [ok |-> FALSE]
             ELSE [ok       |-> TRUE,
                   scheme   |-> LowerTok(Head(s)),
                   hostname |-> toLowerCase(host),
                   pathname |-> IF path = <<>> THEN <<"/">> ELSE path]

\* url.toString()
UrlToString(u) == <<u.scheme>> \o Slashes \o u.hostname \o u.pathname

\* input.replace(/^https?:\/\//i, '')
StripScheme(s) ==
    IF Len(s) >= 3 /\ IsScheme(s[1]) /\ s[2] = "/" /\ s[3] = "/"
    THEN SubSeq(s, 4, Len(s)) ELSE s

toAbsoluteUrl(in) ==
    LET u == ParseUrl(in)
    IN  IF u.ok THEN UrlToString(u) ELSE <<"https:">> \o Slashes \o StripScheme(in)

\* s.replace(/\/$/, '')
StripTrailingSlash(s) ==
    IF s # <<>> /\ s[Len(s)] = "/" THEN SubSeq(s, 1, Len(s) - 1) ELSE s

\* hostname.replace(/^www\./, '')
StripWww(h) == IF IsPrefix(<<"www", ".">>, h) THEN SubSeq(h, 3, Len(h)) ELSE h

isSameDomain(urlStr, domainStr) ==
    LET u == ParseUrl(urlStr)
        d == ParseUrl(toAbsoluteUrl(domainStr))
    IN  IF u.ok /\ d.ok THEN StripWww(u.hostname) = StripWww(d.hostname) ELSE FALSE

-----------------------------------------------------------------------------
(* Candidate extraction (extractors.js).  A page is what the DOM queries and *)
(* the regular expressions of the extractor return on it: per selected      *)
(* element, the matched title, the names each strategy finds, the mailto    *)
(* hrefs and e-mail matches, the phone.                                     *)

NoEmail == <<>>
NoPhone == ""
NoTitle == ""
DefaultTitle == "Camp Director"

\* toLowerCase of a name or a title
LowerStr(t) ==
    CASE t = "Jane Doe"          -> "jane doe"
      [] t = "JANE DOE"          -> "jane doe"
      [] t = "Camp Director"     -> "camp director"
      [] t = "CAMP DIRECTOR"     -> "camp director"
      [] t = "Program Director"  -> "program director"
      [] t = "Site Director"     -> "site director"
      [] t = "Executive Director" -> "executive director"
      [] OTHER                   -> t

\* DIRECTOR_TITLE_REGEX.test(title)
TitleRegexTest(title) ==
    LowerStr(title) \in {"camp director", "executive director", "program director",
                         "site director", "director of operations"}

\* for (let i = 0; i < 6 && cur; i += 1)
NavLimit == 6

\* el.navAt: 0 when the element has no nav/header/footer ancestor-or-self,
\* else 1 for the element itself, 2 for its parent, ...
isInsideNavOrFooter(el) == el.navAt >= 1 /\ el.navAt <= NavLimit

\* the first truthy mailto href of the block, else the first EMAIL_REGEX match
\* of its inner HTML; dropped unless on the site's domain
BlockEmail(el, siteHostname) ==
    LET hrefs == SelectSeq(el.mailto, NonEmpty)
        raw   == IF hrefs # <<>> THEN hrefs[1]
                 ELSE IF el.htmlEmails # <<>> THEN el.htmlEmails[1]
                 ELSE NoEmail
    IN  IF raw # NoEmail /\ ~emailIsOnDomain(raw, siteHostname) THEN NoEmail ELSE raw

\* the names of one block: the strategies of the block loop, in order
BlockNames(el, email) ==
    LET own       == el.direct \o el.around
        sibling   == IF own = <<>> THEN el.sibDirect \o el.sibAround ELSE own
        container == IF sibling = <<>> THEN el.container ELSE sibling
    IN  IF container = <<>> /\ email # NoEmail /\ el.neighbor # <<>>
        THEN el.neighbor ELSE container

IsBlock(el) == ~isInsideNavOrFooter(el) /\ el.title # NoTitle

\* local.split(/[._-]+/)[0] of the part before the @; ucfirst changes the case
\* of letters only and is left out
firstNameFromEmail(email) ==
    IF email = NoEmail \/ email[1] \in {"@", ".", "-"} THEN "" ELSE email[1]

\* the first names new RegExp(`\\b${firstName}\\b...`) rejects with a SyntaxError
\* ("nothing to repeat"): the ones that start with a quantifier
RegExpRejects(firstName) == firstName \in {"+tom"}

\* findFullNameByFirst throws in the block loop: no name was found by the
\* earlier strategies, the block has an address on the domain, and the pattern
\* built from its first name does not compile
BlockRaises(el, siteHostname) ==
    LET email == BlockEmail(el, siteHostname)
        own   == el.direct \o el.around \o el.sibDirect \o el.sibAround \o el.container
    IN  /\ own = <<>>
        /\ email # NoEmail
        /\ firstNameFromEmail(email) # ""
        /\ RegExpRejects(firstNameFromEmail(email))

BlockCandidates(el, pageUrl, siteHostname) ==
    LET email == BlockEmail(el, siteHostname)
        names == BlockNames(el, email)
    IN  [i \in 1..Len(names) |->
            [fullName   |-> names[i].fullName,
             source     |-> names[i].source,
             email      |-> toLowerCase(email),
             phone      |-> el.phone,
             title      |-> el.title,
             pageUrl    |-> pageUrl,
             ctxCampDirector |-> el.ctxCampDirector,
             confidence |-> 0]]


\* candidates of the whole-page scan
GlobalCandidates(page, pageUrl) ==
    LET globalNames == page.bodyDirect \o page.bodyAround
    IN  [i \in 1..Len(globalNames) |->
            [fullName   |-> globalNames[i].fullName,
             source     |-> globalNames[i].source,
             email      |-> NoEmail,
             phone      |-> page.bodyPhone,
             title      |-> DefaultTitle,
             pageUrl    |-> pageUrl,
             ctxCampDirector |-> page.bodyCtxCampDirector,
             confidence |-> 0]]

\* the candidate (or none) of one mailto link of the page
MailtoCandidates(a, pageUrl, siteHostname) ==
    LET email == toLowerCase(trim(a.href))
    IN  IF ~emailIsOnDomain(email, siteHostname) \/ a.nameNear = <<>> THEN <<>>
        ELSE << [fullName   |-> a.nameNear[1].fullName,
                 source     |-> a.nameNear[1].source,
                 email      |-> email,
                 phone      |-> a.phoneNear,
                 title      |-> IF a.title # NoTitle THEN a.title ELSE DefaultTitle,
                 pageUrl    |-> pageUrl,
                 ctxCampDirector |-> a.ctxCampDirector,
                 confidence |-> 0] >>

\* the candidates array before deduplication
RawCandidates(page, pageUrl, siteHostname) ==
    LET blocks    == SelectSeq(page.elements, IsBlock)
        fromBlock == Concat([i \in 1..Len(blocks) |->
                                BlockCandidates(blocks[i], pageUrl, siteHostname)])
    IN  IF fromBlock # <<>> THEN fromBlock
        ELSE GlobalCandidates(page, pageUrl)
             \o Concat([i \in 1..Len(page.mailtos) |->
                           MailtoCandidates(page.mailtos[i], pageUrl, siteHostname)])

\* a variant: the key without toLowerCase
DedupeKey_CaseSensitive(c) == <<c.fullName, c.title, c.email>>

\* `${c.fullName}|${c.title || ''}|${c.email || ''}`.toLowerCase()
DedupeKey(c) == <<LowerStr(c.fullName), LowerStr(c.title), toLowerCase(c.email)>>

\* keyed.values(): the first candidate of each key, in order of first insertion
RECURSIVE UniqueByKey(_)
UniqueByKey(cands) ==
    IF cands = <<>> THEN <<>>
    ELSE LET init == UniqueByKey(SubSeq(cands, 1, Len(cands) - 1))
             last == cands[Len(cands)]
         IN  IF \E i \in 1..Len(init) : DedupeKey(init[i]) = DedupeKey(last)
             THEN init ELSE Append(init, last)

UrlBonus == 10
TitleBonus == 50
EmailBonus == 10
PhoneBonus == 6
PatternBonus == 25
ContextBonus == 8

\* scoreCandidate once new URL(pageUrl) has succeeded
scoreCandidate(c, url, prioritized) ==
    LET path == toLowerCase(url.hostname \o url.pathname)
    IN    (IF c.title # NoTitle /\ TitleRegexTest(c.title) THEN TitleBonus ELSE 0)
        + (IF c.email # NoEmail THEN EmailBonus ELSE 0)
        + (IF c.phone # NoPhone THEN PhoneBonus ELSE 0)
        + (IF c.source \in {"name-then-title", "title-then-name"} THEN PatternBonus ELSE 0)
        + (IF \E i \in 1..Len(prioritized) : IsInfix(prioritized[i], path)
           THEN UrlBonus ELSE 0)
        + (IF c.ctxCampDirector THEN ContextBonus ELSE 0)

\* a variant: a candidate goes before the earlier ones of its confidence
RECURSIVE InsertByConfidence_Unstable(_, _)
InsertByConfidence_Unstable(sorted, c) ==
    IF sorted = <<>> THEN <<c>>
    ELSE IF Head(sorted).confidence > c.confidence
         THEN <<Head(sorted)>> \o InsertByConfidence_Unstable(Tail(sorted), c)
         ELSE <<c>> \o sorted

\* Array.prototype.sort((a, b) => b.confidence - a.confidence): stable
RECURSIVE InsertByConfidence(_, _)
InsertByConfidence(sorted, c) ==
    IF sorted = <<>> THEN <<c>>
    ELSE IF Head(sorted).confidence >= c.confidence
         THEN <<Head(sorted)>> \o InsertByConfidence(Tail(sorted), c)
         ELSE <<c>> \o sorted

RECURSIVE SortByConfidence(_)
SortByConfidence(cands) ==
    IF cands = <<>> THEN <<>>
    ELSE InsertByConfidence(SortByConfidence(SubSeq(cands, 1, Len(cands) - 1)),
                            cands[Len(cands)])

\* [raised, list]: raised when findFullNameByFirst throws in the block loop, or
\* when scoreCandidate's new URL(pageUrl) throws, which happens only if there
\* is a candidate to score
extractDirectorCandidates(page, pageUrl, prioritizedKeywords, siteHostname) ==
    LET prioritized == [i \in 1..Len(prioritizedKeywords) |->
                            toLowerCase(prioritizedKeywords[i])]
        unique == UniqueByKey(RawCandidates(page, pageUrl, siteHostname))
        url    == ParseUrl(pageUrl)
        blocks == SelectSeq(page.elements, IsBlock)
    IN  IF \E i \in 1..Len(blocks) : BlockRaises(blocks[i], siteHostname)
        THEN [raised |-> TRUE, list |-> <<>>]
        ELSE IF unique # <<>> /\ ~url.ok THEN [raised |-> TRUE, list |-> <<>>]
        ELSE [raised |-> FALSE,
              list   |-> SortByConfidence(
                            [i \in 1..Len(unique) |->
                                [unique[i] EXCEPT
                                    !.confidence = scoreCandidate(unique[i], url, prioritized)]])]

\* extractEmailsFromHtml: the matches inside mailto hrefs, then the matches in
\* the raw HTML, lower-cased, as a Set
extractEmailsFromHtml(page) ==
    LET all == page.hrefEmails \o page.textEmails
    IN  SetOrder([i \in 1..Len(all) |-> toLowerCase(all[i])])

-----------------------------------------------------------------------------
(* Seeds and keywords (main program) *)

\* const paths of buildSeedUrlsForDomain
SeedPaths ==
    <<
       <<>>, <<"/", "contact">>, <<"/", "contact", "-", "us">>,
       <<"/", "contact", "us">>, <<"/", "contact", "-", "us", "/">>, <<"/", "about">>,
       <<"/", "about", "-", "us">>, <<"/", "who", "-", "we", "-", "are">>, <<"/", "our", "-", "story">>,
       <<"/", "our", "-", "mission">>, <<"/", "staff">>, <<"/", "our", "-", "staff">>,
       <<"/", "staff", "-", "director", "y">>, <<"/", "staff", "-", "list">>, <<"/", "meet", "-", "our", "-", "staff">>,
       <<"/", "team">>, <<"/", "our", "-", "team">>, <<"/", "meet", "-", "the", "-", "team">>,
       <<"/", "leadership", "-", "team">>, <<"/", "executive", "-", "team">>, <<"/", "leadership">>,
       <<"administration">>, <<"administrative", "-", "staff">>, <<"faculty">>,
       <<"/", "director", "y">>, <<"people">>, <<"board">>,
       <<"board", "-", "of", "-", "director", "s">>, <<"/", "employment">>, <<"jobs">>,
       <<"careers">>, <<"join", "-", "our", "-", "team">>, <<"/", "camp", "-", "director">>,
       <<"program", "-", "director">>, <<"site", "-", "director">>, <<"director", "s">>
    >>

defaultKeywords ==
    <<
       <<"contact">>, <<"contact", "-", "us">>, <<"contact", "us">>,
       <<"about">>, <<"about", "-", "us">>, <<"who", "sp", "we", "sp", "are">>,
       <<"our", "sp", "story">>, <<"our", "sp", "mission">>, <<"staff">>,
       <<"our", "sp", "staff">>, <<"staff", "sp", "director", "y">>, <<"staff", "sp", "list">>,
       <<"meet", "sp", "our", "sp", "staff">>, <<"team">>, <<"our", "sp", "team">>,
       <<"meet", "sp", "the", "sp", "team">>, <<"leadership", "sp", "team">>, <<"executive", "sp", "team">>,
       <<"leadership">>, <<"administration">>, <<"administrative", "sp", "staff">>,
       <<"faculty">>, <<"director", "y">>, <<"people">>,
       <<"board">>, <<"board", "sp", "of", "sp", "director", "s">>, <<"employment">>,
       <<"jobs">>, <<"careers">>, <<"join", "sp", "our", "sp", "team">>,
       <<"camp", "sp", "director">>, <<"program", "sp", "director">>, <<"site", "sp", "director">>,
       <<"director", "s">>
    >>

\* k.replace(/\s+/g, '-')
Slug(k) == [i \in 1..Len(k) |-> IF k[i] = "sp" THEN "-" ELSE k[i]]

buildSeedUrlsForDomain(domain, keywords) ==
    LET base == StripTrailingSlash(toAbsoluteUrl(domain))
    IN  SetOrder([i \in 1..Len(SeedPaths) |-> base \o SeedPaths[i]]
                 \o [i \in 1..Len(keywords) |-> base \o <<"/">> \o Slug(keywords[i])])

\* Array.prototype.slice(0, n)
Slice0(s, n) ==
    IF n >= 0 THEN SubSeq(s, 1, IF n < Len(s) THEN n ELSE Len(s))
    ELSE SubSeq(s, 1, Len(s) + n)

-----------------------------------------------------------------------------
(* The pages of the model's web *)

Jane     == <<"jane", "@", "camp", ".", "org">>
JaneCaps == <<"Jane", "@", "Camp", ".", "ORG">>
InfoMail == <<"info", "@", "mail", ".", "camp", ".", "org">>
Hosting  == <<"sales", "@", "hosting", ".", "com">>
CampCom  == <<"jane", "@", "camp", ".", "com">>
LakeInfo == <<"info", "@", "lake", ".", "com">>
TomGmail == <<"tom", "@", "gmail", ".", "com">>
\* the href of <a href="mailto:tom@gmail.com?subject=www.camp.org">
TomQuery == TomGmail \o <<"?", "subject", "=", "www", ".", "camp", ".", "org">>

\* an address with a plus sign at the start of its local part
PlusTom  == <<"+tom", "@", "camp", ".", "org">>

Emails == {Jane, JaneCaps, InfoMail, Hosting, CampCom, LakeInfo, TomGmail, TomQuery, PlusTom}

Plain(n)  == [fullName |-> n, source |-> "none"]
NameThenTitle(n) == [fullName |-> n, source |-> "name-then-title"]
TitleThenName(n) == [fullName |-> n, source |-> "title-then-name"]

APhone == "(555) 123-4567"

\* an element the block selector returns, with nothing in it
Element ==
    [navAt |-> 0, title |-> NoTitle, direct |-> <<>>, around |-> <<>>,
     sibDirect |-> <<>>, sibAround |-> <<>>, container |-> <<>>, neighbor |-> <<>>,
     mailto |-> <<>>, htmlEmails |-> <<>>, phone |-> NoPhone, ctxCampDirector |-> FALSE]

\* <li>Jane Doe - Camp Director <a href="mailto:jane@camp.org">, phone</li>
ElJane ==
    [Element EXCEPT !.title = "Camp Director", !.direct = <<NameThenTitle("Jane Doe")>>,
                    !.around = <<Plain("Jane Doe")>>, !.mailto = <<Jane>>,
                    !.htmlEmails = <<Jane>>, !.phone = APhone, !.ctxCampDirector = TRUE]

\* <p>CAMP DIRECTOR: JANE DOE <a href="mailto:Jane@Camp.ORG"></p>
ElJaneCaps ==
    [Element EXCEPT !.title = "CAMP DIRECTOR", !.direct = <<TitleThenName("JANE DOE")>>,
                    !.mailto = <<JaneCaps>>, !.htmlEmails = <<JaneCaps>>,
                    !.ctxCampDirector = TRUE]

\* <div>Bob Ray, Program Director - sales@hosting.com</div>: a hosting address
ElBobHosting ==
    [Element EXCEPT !.title = "Program Director", !.direct = <<NameThenTitle("Bob Ray")>>,
                    !.around = <<Plain("Bob Ray")>>, !.htmlEmails = <<Hosting, Jane>>]

\* <p>Our program director can be reached at jane@camp.com</p>, name in the card
ElCardCom ==
    [Element EXCEPT !.title = "program director", !.container = <<Plain("Ann Lee")>>,
                    !.mailto = <<CampCom>>, !.htmlEmails = <<CampCom>>]

\* <p>Contact our Camp Director for info</p>: a title and no name anywhere
ElNoName ==
    [Element EXCEPT !.title = "Camp Director", !.ctxCampDirector = TRUE]

\* <p>camp director: jane@camp.org</p> followed by "Jane Doe" in the parent text
ElNeighbor ==
    [Element EXCEPT !.title = "camp director", !.htmlEmails = <<Jane>>,
                    !.neighbor = <<Plain("Jane Doe")>>, !.ctxCampDirector = TRUE]

\* <p>Site Director: Tom Hill <a href="mailto:tom@gmail.com?subject=www.camp.org">
ElMailQuery ==
    [Element EXCEPT !.title = "Site Director", !.direct = <<TitleThenName("Tom Hill")>>,
                    !.mailto = <<TomQuery>>, !.htmlEmails = <<TomGmail>>]

\* <p>camp director: <a href="mailto:+tom@camp.org">write to us</a></p>
ElPlus ==
    [Element EXCEPT !.title = "camp director", !.mailto = <<PlusTom>>,
                    !.htmlEmails = <<PlusTom>>, !.ctxCampDirector = TRUE]

\* <p>Jane Doe - Camp Director. Assistant: Bob Ray</p>
ElAssistant ==
    [Element EXCEPT !.title = "Camp Director", !.direct = <<NameThenTitle("Jane Doe")>>,
                    !.around = <<Plain("Jane Doe"), Plain("Bob Ray")>>,
                    !.ctxCampDirector = TRUE]

\* <nav><ul><li>Meet Tom Hill, Site Director</li></ul></nav>
ElNav ==
    [Element EXCEPT !.navAt = 3, !.title = "Site Director",
                    !.direct = <<NameThenTitle("Tom Hill")>>]

\* a paragraph without any title keyword
ElText == [Element EXCEPT !.htmlEmails = <<InfoMail>>]

\* a page with nothing on it
Page ==
    [elements |-> <<>>, bodyDirect |-> <<>>, bodyAround |-> <<>>, bodyPhone |-> NoPhone,
     bodyCtxCampDirector |-> FALSE, mailtos |-> <<>>, hrefEmails |-> <<>>,
     textEmails |-> <<>>, links |-> <<>>]

Mailto(href, names) ==
    [href |-> href, nameNear |-> names, phoneNear |-> NoPhone, title |-> NoTitle,
     ctxCampDirector |-> FALSE]

Camp == <<"https:", "/", "/", "camp", ".", "org">>
CampWww == <<"https:", "/", "/", "www", ".", "camp", ".", "org">>
Lake == <<"https:", "/", "/", "lake", ".", "com">>

\* the staff page: two cards for the same person, a hosting contact, a menu
PageStaff ==
    [Page EXCEPT !.elements = <<ElNav, ElJane, ElJaneCaps, ElBobHosting>>,
                 !.hrefEmails = <<Jane, JaneCaps>>,
                 !.textEmails = <<Jane, JaneCaps, Hosting>>,
                 !.links = <<Camp \o <<"/", "staff", "/", "team">>,
                             <<"https:", "/", "/", "blog", ".", "camp", ".", "org", "/", "staff">>>>]

\* the contact page: no title keyword; mailto links next to names
PageContact ==
    [Page EXCEPT !.elements = <<ElText>>,
                 !.mailtos = <<Mailto(Hosting, <<Plain("Bob Ray")>>),
                               Mailto(<<"sp">> \o JaneCaps, <<Plain("Jane Doe")>>),
                               Mailto(Jane, <<Plain("Jane Doe")>>),
                               Mailto(TomQuery, <<Plain("Tom Hill")>>)>>,
                 !.hrefEmails = <<Hosting, JaneCaps, Jane, TomGmail>>,
                 !.textEmails = <<Hosting, JaneCaps, Jane, InfoMail, TomGmail>>]

\* the home page: addresses and links, a title with no name
PageHome ==
    [Page EXCEPT !.elements = <<ElNoName, ElText>>,
                 !.textEmails = <<InfoMail, Hosting>>,
                 !.links = <<Camp \o <<"/", "staff">>,
                             CampWww \o <<"/", "contact">>,
                             Camp \o <<"/", "news">>,
                             <<"https:", "/", "/", "hosting", ".", "com", "/", "contact">>>>]

\* the team page: a card whose only address is off the domain; a deeper link
PageTeam ==
    [Page EXCEPT !.elements = <<ElCardCom, ElNeighbor, ElMailQuery>>,
                 !.hrefEmails = <<CampCom, TomGmail>>,
                 !.textEmails = <<CampCom, Jane, TomGmail>>,
                 !.links = <<Camp \o <<"/", "staff", "/", "team", "/", "leadership">>>>]

\* a page below the team page: "Executive Director Sue Kim" in the body text only
PageLeadership ==
    [Page EXCEPT !.bodyAround = <<Plain("Sue Kim")>>,
                 !.links = <<Camp \o <<"/", "staff", "/", "team", "/", "leadership", "/", "board">>>>]

\* the employment page: a director's address and no name
PageEmployment ==
    [Page EXCEPT !.elements = <<ElPlus>>, !.hrefEmails = <<PlusTom>>,
                 !.textEmails = <<PlusTom>>]

\* a board page: Bob Ray and Tom Hill, same kind of card, around Jane Doe's
PageBoard ==
    [Page EXCEPT !.elements = <<ElBobHosting, ElJane, [ElNav EXCEPT !.navAt = 0]>>,
                 !.hrefEmails = <<Jane>>, !.textEmails = <<Hosting, Jane>>]

\* an about page: the director and her assistant in one paragraph, and a
\* footer with <li>Meet Tom Hill, Site Director</li> six levels down in it
PageAbout ==
    [Page EXCEPT !.elements = <<ElAssistant, [ElNav EXCEPT !.navAt = NavLimit + 1]>>]

\* the only page of lake.com: addresses, no name
PageLake ==
    [Page EXCEPT !.elements = <<ElText>>, !.textEmails = <<LakeInfo, Hosting, InfoMail>>]

Pages == {Page, PageStaff, PageContact, PageHome, PageTeam, PageLeadership, PageLake,
          PageEmployment, PageBoard, PageAbout}

Worlds == {"full", "bare"}

\* what the web answers for a URL: [status, contentType, page].  In the "bare"
\* world every page that answers is empty of names.
Fetch(w, urlStr) ==
    LET u    == ParseUrl(urlStr)
        host == IF u.ok THEN StripWww(u.hostname) ELSE <<>>
        path == IF u.ok THEN StripTrailingSlash(u.pathname) ELSE <<>>
        Ok(p)   == [status |-> "ok", contentType |-> "text/html",
                    page |-> IF w = "bare" THEN [p EXCEPT !.elements = <<ElText>>,
                                                          !.mailtos = <<>>,
                                                          !.bodyAround = <<>>]
                             ELSE p]
        Failed  == [status |-> "failed", contentType |-> "", page |-> Page]
    IN  IF ~u.ok THEN Failed
        ELSE IF host = <<"camp", ".", "org">> THEN
            CASE path = <<>>                  -> Ok(PageHome)
              [] path = <<"/", "contact">>    -> Ok(PageContact)
              [] path = <<"/", "staff">>      -> Ok(PageStaff)
              [] path = <<"/", "about">>      ->
                    [status |-> "ok", contentType |-> "image/png", page |-> Page]
              [] path = <<"/", "employment">> -> Ok(PageEmployment)
              [] path = <<"/", "staff", "/", "team">> -> Ok(PageTeam)
              [] path = <<"/", "staff", "/", "team", "/", "leadership">> -> Ok(PageLeadership)
              [] OTHER -> Failed
        ELSE IF host = <<"lake", ".", "com">> /\ path = <<>> THEN Ok(PageLake)
        ELSE Failed

-----------------------------------------------------------------------------
(* pickBestCandidate *)

\* `best?.confidence || -1`: -1 for a null best and for a falsy (0) confidence
BestOrMinusOne(cands, best) ==
    IF best = 0 THEN -1
    ELSE IF cands[best].confidence = 0 THEN -1
    ELSE cands[best].confidence

\* the reduce of pickBestCandidate over the first n candidates; the result is
\* the index of the accumulator (0: null)
RECURSIVE ReduceBest(_, _)
ReduceBest(cands, n) ==
    IF n = 0 THEN 0
    ELSE LET best == ReduceBest(cands, n - 1)
         IN  IF cands[n].confidence > BestOrMinusOne(cands, best) THEN n ELSE best

\* index (1-based) of the candidate pickBestCandidate returns, 0 for null
pickBestIndex(domainState) ==
    LET all == domainState.candidates
    IN  IF Len(all) = 0 THEN 0 ELSE ReduceBest(all, Len(all))

\* <<>> for null, else the one candidate
pickBestCandidate(domainState) ==
    LET i == pickBestIndex(domainState)
    IN  IF i = 0 THEN <<>> ELSE <<domainState.candidates[i]>>


-----------------------------------------------------------------------------
(* The inputs of a run *)

DCamp    == <<"camp", ".", "org">>
DCampUrl == <<"https:", "/", "/", "www", ".", "Camp", ".", "org">>
DCampSp  == <<"sp", "camp", ".", "org", "sp">>
DLake    == <<"lake", ".", "com">>
DBad     == <<"bad", "sp", "camp">>
DBlank   == <<"sp">>
DEmpty   == <<>>

DomainLists ==
    { <<DCamp>>, <<DCampUrl, DLake>>, <<DCamp, DCampSp>>, <<DBad, DCamp>>,
      <<DLake, DBlank>>, <<>>, <<DEmpty>> }

Obj(pairs) ==
    [k \in { p[1] : p \in pairs } |-> (CHOOSE p \in pairs : p[1] = k)[2]]

CustomKeywords == << <<"staff">>, <<"sp", "team", "sp">>, <<"staff">> >>

\* mostly small per-domain caps; the default cap (30 seeds) for a few inputs
Inputs ==
    { Obj(d \cup md \cup mr \cup kw) :
        d  \in {{}} \cup { {<<"domains", l>>} : l \in DomainLists },
        md \in {{}} \cup { {<<"maxDepth", n>>} : n \in {-1, 0, 1} },
        mr \in { {<<"maxRequestsPerDomain", n>>} : n \in {1, 2} },
        kw \in {{}, {<<"pageKeywords", CustomKeywords>>}} }
    \cup { Obj({<<"domains", <<DCamp>>>>}), Obj({<<"maxDepth", 1>>}) }

\* readJsonIfExists: null, or the parsed file
NoFile == [missing |-> TRUE]
Fallbacks ==
    { NoFile,
      Obj({<<"domains", <<DLake>>>>, <<"maxDepth", 0>>}),
      Obj({<<"domains", <<>>>>}) }

\* maxConcurrency: 8
maxConcurrency == 8

-----------------------------------------------------------------------------
(* The main program *)

\* a JSON object is a function from its keys
Has(obj, key) == key \in DOMAIN obj

\* { ...fallback, ...input }
Spread(fb, in) ==
    [k \in (DOMAIN fb) \cup (DOMAIN in) |-> IF k \in DOMAIN in THEN in[k] ELSE fb[k]]

\* !Array.isArray(input.domains) || input.domains.length === 0
NoDomainsIn(obj) == ~Has(obj, "domains") \/ Len(obj.domains) = 0

DefaultMaxDepth == 2
DefaultMaxRequestsPerDomain == 30
MinPerDomainCap == 10
MaxPerDomainCap == 80

\* the settings read from the (merged) input
Settings(in) ==
    [prioritizedKeywords |->
        normalizeAndDedupe(IF Has(in, "pageKeywords") /\ Len(in.pageKeywords) > 0
                           THEN in.pageKeywords ELSE defaultKeywords),
     maxDepth |-> IF Has(in, "maxDepth") THEN in.maxDepth ELSE DefaultMaxDepth,
     maxRequestsPerDomain |->
        IF Has(in, "maxRequestsPerDomain") THEN in.maxRequestsPerDomain
        ELSE DefaultMaxRequestsPerDomain]

NoSettings == [prioritizedKeywords |-> <<>>, maxDepth |-> DefaultMaxDepth,
               maxRequestsPerDomain |-> DefaultMaxRequestsPerDomain]

prioritizedKeywords == config.prioritizedKeywords
maxDepth == config.maxDepth
maxRequestsPerDomain == config.maxRequestsPerDomain

Min(a, b) == IF a < b THEN a ELSE b
Max(a, b) == IF a > b THEN a ELSE b

maxRequestsPerCrawl ==
    Len(domains) * Max(MinPerDomainCap, Min(MaxPerDomainCap, maxRequestsPerDomain))

NewDomainState == [emails |-> <<>>, candidates |-> <<>>, pagesCrawled |-> 0]

\* a variant: the empty list does not stop the run
ExitsOnEmpty_Never(ds) == Len(ds) < 0

\* if (domains.length === 0) process.exit(1)
ExitsOnEmpty(ds) == Len(ds) = 0

\* Actor.getInput, the fallback files, normalizeAndDedupe, process.exit(1),
\* the settings and the domainStates map
LoadInput ==
    /\ pc = "load"
    /\ \E fb \in (IF NoDomainsIn(input) THEN Fallbacks ELSE {NoFile}) :
          LET merged == IF NoDomainsIn(input) /\ ~NoDomainsIn(fb)
                        THEN Spread(fb, input) ELSE input
              ds     == normalizeAndDedupe(IF Has(merged, "domains")
                                           THEN merged.domains ELSE <<>>)
          IN  /\ fallback' = fb
              /\ input' = merged
              /\ domains' = ds
              /\ IF ExitsOnEmpty(ds)
                 THEN /\ pc' = "exited"
                      /\ exitCode' = 1
                      /\ UNCHANGED <<domainStates, config>>
                 ELSE /\ pc' = "seed"
                      /\ exitCode' = exitCode
                      /\ config' = Settings(merged)
                      /\ domainStates' = [d \in Range(ds) |-> NewDomainState]
    /\ UNCHANGED <<world, queue, seen, running, handled, records, loopIdx>>
    /\ UNCHANGED <<pickVars, exVars, utilVars, dirVars>>

\* crawler.addRequests: the queue keeps one request per unique key
AddRequests(q, reqs) ==
    LET Fresh(r) == r.url \notin q.seen
    IN  [queue |-> q.queue \o SelectSeq(SetOrder(reqs), Fresh),
         seen  |-> q.seen \cup { reqs[i].url : i \in 1..Len(reqs) }]

\* one iteration of the seeding loop
SeedDomain ==
    /\ pc = "seed"
    /\ LET domain == domains[loopIdx]
           seeds  == Slice0(buildSeedUrlsForDomain(domain, prioritizedKeywords),
                            maxRequestsPerDomain)
           q      == AddRequests([queue |-> queue, seen |-> seen],
                                 [i \in 1..Len(seeds) |->
                                     [url |-> seeds[i], rootDomain |-> domain, depth |-> 0,
                                      retryCount |-> 0]])
       IN  /\ queue' = q.queue
           /\ seen' = q.seen
    /\ IF loopIdx = Len(domains)
       THEN pc' = "crawl" /\ loopIdx' = 1
       ELSE pc' = pc /\ loopIdx' = loopIdx + 1
    /\ UNCHANGED <<input, fallback, world, domains, config, domainStates, running, handled,
                   records, exitCode>>
    /\ UNCHANGED <<pickVars, exVars, utilVars, dirVars>>

\* the pool takes the next request of the queue; it starts none once
\* maxRequestsPerCrawl have been taken
StartRequest ==
    /\ pc = "crawl"
    /\ queue # <<>>
    /\ Cardinality(running) < Min(Concurrency, maxConcurrency)
    /\ Cardinality(handled) + Cardinality(running) < maxRequestsPerCrawl
    /\ running' = running \cup {[req |-> Head(queue), phase |-> "fetch"]}
    /\ queue' = Tail(queue)
    /\ UNCHANGED <<pc, input, fallback, world, domains, config, domainStates, seen,
                   handled, records, loopIdx, exitCode>>
    /\ UNCHANGED <<pickVars, exVars, utilVars, dirVars>>

\* a request the web does not answer: the handler never runs
FailRequest ==
    \E t \in running :
        /\ pc = "crawl"
        /\ t.phase = "fetch"
        /\ Fetch(world, t.req.url).status = "failed"
        /\ running' = running \ {t}
        /\ handled' = handled \cup {t.req}
        /\ UNCHANGED <<pc, input, fallback, world, domains, config, domainStates, queue,
                       seen, records, loopIdx, exitCode>>
        /\ UNCHANGED <<pickVars, exVars, utilVars, dirVars>>

\* a variant: pages at maxDepth enqueue their links too
MayEnqueue_Inclusive(depth) == depth <= maxDepth

\* if (depth < maxDepth)
MayEnqueue(depth) == depth < maxDepth

\* a variant: the e-mails of the page replace the set
AddAll_Replace(set, xs) == SetOrder(xs)

\* state.emails.add(e) for each e
AddAll(set, xs) == SetOrder(set \o xs)

\* a variant: the candidates of the page replace those of earlier pages
Accumulate_Overwrite(state, resp, url) ==
    IF resp.contentType # "text/html" THEN [state EXCEPT !.pagesCrawled = @ + 1]
    ELSE LET found == extractDirectorCandidates(resp.page, url, prioritizedKeywords,
                                                ParseUrl(url).hostname)
         IN  [emails       |-> AddAll(state.emails, extractEmailsFromHtml(resp.page)),
              candidates   |-> found.list,
              pagesCrawled |-> state.pagesCrawled + 1]

\* the state after the synchronous part of the handler for a page
Accumulate(state, resp, url) ==
    IF resp.contentType # "text/html" THEN [state EXCEPT !.pagesCrawled = @ + 1]
    ELSE LET siteHost == ParseUrl(url).hostname
             found    == extractDirectorCandidates(resp.page, url, prioritizedKeywords,
                                                   siteHost)
         IN  [emails       |-> AddAll(state.emails, extractEmailsFromHtml(resp.page)),
              candidates   |-> state.candidates \o found.list,
              pagesCrawled |-> state.pagesCrawled + 1]

\* maxRequestRetries: 2
maxRequestRetries == 2

\* the handler throws out of extractDirectorCandidates: nothing in it catches
HandlerThrows(resp, url) ==
    /\ resp.contentType = "text/html"
    /\ extractDirectorCandidates(resp.page, url, prioritizedKeywords,
                                 ParseUrl(url).hostname).raised

\* requestHandler up to `await enqueueLinks`.  When it throws, the crawler puts
\* the request back at the end of the queue until it has been retried
\* maxRequestRetries times, and then marks it failed.
RequestHandler ==
    \E t \in running :
        LET r    == t.req
            resp == Fetch(world, r.url)
        IN  /\ pc = "crawl"
            /\ t.phase = "fetch"
            /\ resp.status = "ok"
            /\ IF r.rootDomain \notin DOMAIN domainStates
               THEN /\ handled' = handled \cup {r}
                    /\ running' = running \ {t}
                    /\ UNCHANGED <<domainStates, queue>>
               ELSE /\ domainStates' =
                          [domainStates EXCEPT ![r.rootDomain] = Accumulate(@, resp, r.url)]
                    /\ IF HandlerThrows(resp, r.url)
                       THEN /\ running' = running \ {t}
                            /\ IF r.retryCount < maxRequestRetries
                               THEN /\ queue' = Append(queue, [r EXCEPT !.retryCount = @ + 1])
                                    /\ handled' = handled
                               ELSE /\ queue' = queue
                                    /\ handled' = handled \cup {r}
                       ELSE /\ queue' = queue
                            /\ IF resp.contentType = "text/html" /\ MayEnqueue(r.depth)
                               THEN /\ running' = (running \ {t})
                                                    \cup {[t EXCEPT !.phase = "enqueue"]}
                                    /\ handled' = handled
                               ELSE /\ running' = running \ {t}
                                    /\ handled' = handled \cup {r}
            /\ UNCHANGED <<pc, input, fallback, world, domains, config, seen, records,
                           loopIdx, exitCode>>
            /\ UNCHANGED <<pickVars, exVars, utilVars, dirVars>>

\* the last path segment of a URL
RECURSIVE LastSegment(_)
LastSegment(s) ==
    IF s = <<>> \/ s[Len(s)] = "/" THEN <<>>
    ELSE Append(LastSegment(SubSeq(s, 1, Len(s) - 1)), s[Len(s)])

\* globs `**/*${slug}*`
MatchesGlobs(urlStr, keywords) ==
    \E i \in 1..Len(keywords) : IsInfix(Slug(keywords[i]), LastSegment(urlStr))

\* strategy: 'same-domain'
SameDomainStrategy(urlStr, pageUrl) ==
    LET u == ParseUrl(urlStr)
    IN  u.ok /\ getRegistrableDomain(u.hostname)
                  = getRegistrableDomain(ParseUrl(pageUrl).hostname)

\* the requests enqueueLinks creates for the links of a page
LinkRequests(r, links) ==
    LET Wanted(l) == /\ SameDomainStrategy(l, r.url)
                     /\ MatchesGlobs(l, prioritizedKeywords)
                     /\ isSameDomain(l, r.rootDomain)
        kept == SelectSeq(links, Wanted)
    IN  [i \in 1..Len(kept) |->
            [url |-> kept[i], rootDomain |-> r.rootDomain, depth |-> r.depth + 1,
             retryCount |-> 0]]

\* the enqueueLinks call a handler was suspended at
EnqueueLinks ==
    \E t \in running :
        LET r == t.req
            q == AddRequests([queue |-> queue, seen |-> seen],
                             LinkRequests(r, Fetch(world, r.url).page.links))
        IN  /\ pc = "crawl"
            /\ t.phase = "enqueue"
            /\ queue' = q.queue
            /\ seen' = q.seen
            /\ running' = running \ {t}
            /\ handled' = handled \cup {r}
            /\ UNCHANGED <<pc, input, fallback, world, domains, config, domainStates,
                           records, loopIdx, exitCode>>
            /\ UNCHANGED <<pickVars, exVars, utilVars, dirVars>>

\* crawler.run() resolves
CrawlDone ==
    /\ pc = "crawl"
    /\ running = {}
    /\ queue = <<>> \/ Cardinality(handled) >= maxRequestsPerCrawl
    /\ pc' = "output"
    /\ loopIdx' = 1
    /\ UNCHANGED <<input, fallback, world, domains, config, domainStates, queue, seen, running,
                   handled, records, exitCode>>
    /\ UNCHANGED <<pickVars, exVars, utilVars, dirVars>>

\* one iteration of the output loop; new URL(...) throws on a domain that is
\* no URL even with a scheme, and nothing catches it
OutputRecord ==
    /\ pc = "output"
    /\ loopIdx <= Len(domains)
    /\ LET domain == domains[loopIdx]
           state  == domainStates[domain]
           site   == ParseUrl(toAbsoluteUrl(domain))
       IN  IF ~site.ok
           THEN /\ pc' = "crashed"
                /\ exitCode' = 1
                /\ UNCHANGED <<records, loopIdx>>
           ELSE /\ records' = Append(records,
                      [inputDomain      |-> domain,
                       bestContact      |-> pickBestCandidate(state),
                       allEmails        |-> filterEmailsToDomain(state.emails, site.hostname),
                       candidatesChecked |-> Len(state.candidates),
                       pagesCrawled     |-> state.pagesCrawled])
                /\ loopIdx' = loopIdx + 1
                /\ UNCHANGED <<pc, exitCode>>
    /\ UNCHANGED <<input, fallback, world, domains, config, domainStates, queue, seen, running,
                   handled>>
    /\ UNCHANGED <<pickVars, exVars, utilVars, dirVars>>

\* Actor.exit()
Exit ==
    /\ pc = "output"
    /\ loopIdx > Len(domains)
    /\ pc' = "done"
    /\ exitCode' = 0
    /\ UNCHANGED <<input, fallback, world, domains, config, domainStates, queue, seen, running,
                   handled, records, loopIdx>>
    /\ UNCHANGED <<pickVars, exVars, utilVars, dirVars>>

-----------------------------------------------------------------------------
(* Direct calls of the exported functions *)

ConfLevels == {0, 10, 30, 75}

ACandidate ==
    [fullName |-> "Jane Doe", source |-> "none", email |-> NoEmail, phone |-> NoPhone,
     title |-> DefaultTitle, pageUrl |-> Camp, ctxCampDirector |-> FALSE, confidence |-> 0]

PickStates ==
    { [emails |-> <<>>, pagesCrawled |-> Len(cs),
       candidates |-> [i \in 1..Len(cs) |-> [ACandidate EXCEPT !.confidence = cs[i]]]] :
        cs \in SeqsUpTo(ConfLevels, MaxCands) }

PickBest ==
    /\ ~pbResult.called
    /\ pbResult' = [called |-> TRUE, index |-> pickBestIndex(pbState)]
    /\ UNCHANGED <<pbState, mainVars, exVars, utilVars, dirVars>>

\* a keyword that is part of the host name camp.org
HostKeywords == << <<"Camp">> >>

ExtractArgs ==
    [page         : Pages,
     pageUrl      : { Camp \o <<"/", "staff">>, Camp \o <<"/", "news">>,
                      <<"not", "sp", "a", "sp", "url">>, <<>> },
     keywords     : { <<>>, CustomKeywords, HostKeywords },
     siteHostname : { <<"camp", ".", "org">>, <<"www", ".", "Camp", ".", "org">>,
                      <<"lake", ".", "com">>, <<>> }]

ExtractCall ==
    /\ ~exResult.called
    /\ LET out == extractDirectorCandidates(exArgs.page, exArgs.pageUrl, exArgs.keywords,
                                            exArgs.siteHostname)
       IN  exResult' = [called |-> TRUE, raised |-> out.raised, list |-> out.list]
    /\ UNCHANGED <<exArgs, mainVars, pickVars, utilVars, dirVars>>

\* the first n digits of lead, 5, 5, 5, 0, 1, 2, 3, 4, 5, 6, 7, 8, ...
DigitRun(lead, n) ==
    LET tailDigits == <<"5", "5", "5", "0", "1", "2", "3", "4", "5", "6", "7", "8", "9">>
    IN  SubSeq(<<lead>> \o tailDigits, 1, n)

\* the digits written the way pages write phone numbers
Written(style, ds) ==
    CASE style = "plain"  -> ds
      [] style = "dashed" -> Concat([i \in 1..Len(ds) |->
                                        IF i % 3 = 0 THEN <<ds[i], "-">> ELSE <<ds[i]>>])
      [] style = "parens" -> <<"+">> \o Concat([i \in 1..Len(ds) |->
                                        IF i = 1 THEN <<ds[i], " ", "(">>
                                        ELSE IF i = 4 THEN <<ds[i], ")", " ">>
                                        ELSE <<ds[i]>>])
      [] style = "tel"    -> <<"t", "e", "l", ":">> \o ds \o <<" ", "x">>

PhoneArgs ==
    { [fn |-> "normalizePhone", raw |-> Written(style, DigitRun(lead, n))] :
        style \in {"plain", "dashed", "parens", "tel"},
        lead  \in {"1", "2", "5"},
        n     \in 0..MaxDigits }

NormalizePhoneCall ==
    /\ utArgs.fn = "normalizePhone"
    /\ ~utResult.called
    /\ utResult' = [called |-> TRUE, value |-> normalizePhone(utArgs.raw)]
    /\ UNCHANGED <<utArgs, mainVars, pickVars, exVars, dirVars>>

\* e-mail strings: addresses, mixed case, sub-domains, a single-label host, an
\* empty label, and strings without a host part
EmailSamples ==
    Emails \cup { <<"info", "@", "mail", ".", "Camp", ".", "ORG">>,
                  <<"x", "@", "org">>,
                  <<"jane", "@", "camp", ".", "org", ".">>,
                  <<"jane", "@", "a", ".", "b", ".", "lake", ".", "com">>,
                  <<"jane">>, <<"jane", "@">>, <<>> }

\* site host names; <<>> for a missing one
HostSamples ==
    { <<"camp", ".", "org">>, <<"www", ".", "camp", ".", "org">>,
      <<"WWW", ".", "Camp", ".", "ORG">>, <<"lake", ".", "com">>, <<"camp", ".", "com">>,
      <<"mail", ".", "lake", ".", "com">>, <<"org">>, <<>> }

EmailArgs == [fn : {"emailIsOnDomain"}, email : EmailSamples, host : HostSamples]

EmailIsOnDomainCall ==
    /\ utArgs.fn = "emailIsOnDomain"
    /\ ~utResult.called
    /\ utResult' = [called |-> TRUE, value |-> emailIsOnDomain(utArgs.email, utArgs.host)]
    /\ UNCHANGED <<utArgs, mainVars, pickVars, exVars, dirVars>>

\* list entries: strings, the same with white space around, a blank string,
\* the empty string
ListEntries == {DCamp, DCampSp, DLake, DBlank, DEmpty, <<"sp", "sp">>}

DedupeArgs == [fn : {"normalizeAndDedupe"}, list : SeqsUpTo(ListEntries, MaxList)]

NormalizeAndDedupeCall ==
    /\ utArgs.fn = "normalizeAndDedupe"
    /\ ~utResult.called
    /\ utResult' = [called |-> TRUE, value |-> normalizeAndDedupe(utArgs.list)]
    /\ UNCHANGED <<utArgs, mainVars, pickVars, exVars, dirVars>>

-----------------------------------------------------------------------------
(* The directory collector (directory-collector/index.js) *)

\* r.registrableDomain || r.website || r.name; "" when all are empty
RecordKey(r) ==
    IF r.registrableDomain # "" THEN r.registrableDomain
    ELSE IF r.website # "" THEN r.website
    ELSE r.name

\* const score = (x) => ...
score(x) ==
      (IF x.email # "" THEN 3 ELSE 0)
    + (IF x.phone # "" THEN 2 ELSE 0)
    + (IF x.website # "" THEN 1 ELSE 0)

\* a variant: a later record of equal score replaces the kept one
Replaces_OnTie(r, prev) == score(r) >= score(prev)

\* if (score(r) > score(prev)) map.set(key, r)
Replaces(r, prev) == score(r) > score(prev)

\* the Map after the loop, as the sequence of its [key, value] entries in
\* insertion order
RECURSIVE DedupeMap(_)
DedupeMap(recs) ==
    IF recs = <<>> THEN <<>>
    ELSE LET map == DedupeMap(SubSeq(recs, 1, Len(recs) - 1))
             r   == recs[Len(recs)]
             key == RecordKey(r)
             at  == { i \in 1..Len(map) : map[i].key = key }
         IN  IF key = "" THEN map
             ELSE IF at = {} THEN Append(map, [key |-> key, value |-> r])
             ELSE LET i == CHOOSE i \in at : TRUE
                  IN  IF Replaces(r, map[i].value)
                      THEN [map EXCEPT ![i] = [key |-> key, value |-> r]]
                      ELSE map

\* Array.from(map.values())
dedupeByDomain(recs) ==
    LET map == DedupeMap(recs)
    IN  [i \in 1..Len(map) |-> map[i].value]

\* a listing as parseListingBlock and normalizeRecord return it
Listing(name, website, email, phone, registrableDomain) ==
    [name |-> name, website |-> website, email |-> email, phone |-> phone,
     registrableDomain |-> registrableDomain]

\* listings: three of camp.org (two of equal score), two keyed by their name,
\* one keyed by a website that is no URL, one without any key
Listings ==
    { Listing("Camp A", "https://camp.org", "a@camp.org", "", "camp.org"),
      Listing("Camp B", "https://www.camp.org/x", "b@camp.org", "", "camp.org"),
      Listing("Camp C", "https://camp.org", "a@camp.org", "555-0100", "camp.org"),
      Listing("Lake", "", "", "555-0101", ""),
      Listing("Lake", "", "l@lake.com", "", ""),
      Listing("Web", "camp.org", "", "", ""),
      Listing("", "", "x@y.org", "", "") }

DirDedupeArgs == [fn : {"dedupeByDomain"}, records : SeqsUpTo(Listings, MaxRecords)]

DedupeByDomainCall ==
    /\ utArgs.fn = "dedupeByDomain"
    /\ ~utResult.called
    /\ utResult' = [called |-> TRUE, value |-> dedupeByDomain(utArgs.records)]
    /\ UNCHANGED <<utArgs, mainVars, pickVars, exVars, dirVars>>

\* a table row of a sub-directory page with "Email:" or "Website:" in its text,
\* as the queries of parseListingBlock see it: the text of its first a/strong/b,
\* the href of its first a[href^="http"] and of its first mailto link, and the
\* text after "Ph:"; "" where there is none
Row(name, href, mailto, phone) ==
    [name |-> name, href |-> href, mailto |-> mailto, phone |-> phone]

\* parseListingBlock: [threw, record].  The callback of the website filter
\* calls $, which is no binding of the function nor of the module (its
\* parameter is $block): it throws a ReferenceError for the first http link.
parseListingBlock(row) ==
    IF row.href # "" THEN [threw |-> TRUE, record |-> <<>>]
    ELSE [threw  |-> FALSE,
          record |-> <<[name |-> row.name, website |-> "", email |-> row.mailto,
                        phone |-> row.phone]>>]

\* extractListings: [threw, items], the rows with a website, an e-mail or a phone
extractListings(rows) ==
    LET parsed == [i \in 1..Len(rows) |-> parseListingBlock(rows[i])]
        Kept(q) == q.record[1].email # "" \/ q.record[1].phone # ""
                   \/ q.record[1].website # ""
    IN  IF \E i \in 1..Len(rows) : parsed[i].threw THEN [threw |-> TRUE, items |-> <<>>]
        ELSE [threw |-> FALSE,
              items |-> Concat([i \in 1..Len(rows) |->
                                   IF Kept(parsed[i]) THEN parsed[i].record ELSE <<>>])]

\* how the module is loaded: "esm" rejects an import of a name the imported
\* module does not export; "interop" binds it to undefined
Builds == {"esm", "interop"}

\* import { ..., getRegistrableDomain } from '../src/utils/extractors.js':
\* extractors.js declares the function and does not export it
LoadFails(build) == build = "esm"

\* normalizeRecord: [threw, record].  Where the module has loaded,
\* getRegistrableDomain is undefined and calling it throws a TypeError
\* outside the try block.
normalizeRecord(record) == [threw |-> TRUE, record |-> <<>>]

\* the requestHandler of collectDirectory: [threw, pushed]
DirectoryHandler(rows) ==
    LET listings   == extractListings(rows)
        normalized == [i \in 1..Len(listings.items) |-> normalizeRecord(listings.items[i])]
    IN  IF listings.threw \/ \E i \in 1..Len(normalized) : normalized[i].threw
        THEN [threw |-> TRUE, pushed |-> <<>>]
        ELSE [threw  |-> FALSE,
              pushed |-> Concat([i \in 1..Len(normalized) |-> normalized[i].record])]

\* the sub-directories collectSubdirectories may return.  For each: the rows
\* its page holds and what happens when it is harvested: "ok" (the page is
\* fetched and the handler runs), "handler" (the page cannot be fetched) or
\* "throws" (addRequests or crawler.run() rejects).  A request whose fetch or
\* handler fails on every try is marked failed and crawler.run() resolves.
Subdirectories ==
    { [url |-> "https://ca.summercamps.com", outcome |-> "ok",
       rows |-> << Row("Camp A", "https://camp.org", "a@camp.org", ""),
                   Row("Camp C", "https://camp.org", "a@camp.org", "555-0100"),
                   Row("Lake", "", "", "555-0101") >>],
      [url |-> "https://ny.summercamps.com", outcome |-> "handler",
       rows |-> << Row("Web", "https://camp.org", "", "") >>],
      [url |-> "https://tx summercamps.com", outcome |-> "throws",
       rows |-> << Row("Lake", "", "l@lake.com", "") >>],
      [url |-> "https://www.mysummercamps.org", outcome |-> "ok",
       rows |-> << Row("Lake", "", "l@lake.com", ""),
                   Row("Camp B", "https://www.camp.org/x", "b@camp.org", "") >>],
      [url |-> "https://fl.summercamps.com", outcome |-> "ok",
       rows |-> << Row("Pine", "", "", "") >>] }

\* Array.from(subdirs): the URLs of a Set, each once
SubdirLists ==
    { l \in SeqsUpTo(Subdirectories, MaxSubdirs) :
        \A i, j \in 1..Len(l) : i # j => l[i].url # l[j].url }

\* collectDirectory: [threw, items]
collectDirectory(sub) ==
    IF sub.outcome = "throws" THEN [threw |-> TRUE, items |-> <<>>]
    ELSE LET pushed == IF sub.outcome = "ok" THEN DirectoryHandler(sub.rows).pushed
                       ELSE <<>>
         IN  [threw |-> FALSE, items |-> dedupeByDomain(pushed)]

\* items.forEach((it) => (it.sourceDirectory = u))
WithSource(items, u) ==
    [i \in 1..Len(items) |->
        [name |-> items[i].name, website |-> items[i].website, email |-> items[i].email,
         phone |-> items[i].phone, registrableDomain |-> items[i].registrableDomain,
         sourceDirectory |-> u]]

\* the index file: for (const r of all) kv[r.registrableDomain] = {...}
RECURSIVE KvIndex(_)
KvIndex(all) ==
    IF all = <<>> THEN <<>>
    ELSE LET kv == KvIndex(SubSeq(all, 1, Len(all) - 1))
             r  == all[Len(all)]
             v  == [name |-> r.name, website |-> r.website, email |-> r.email,
                    phone |-> r.phone]
         IN  IF r.registrableDomain = "" THEN kv
             ELSE [k \in DOMAIN kv \cup {r.registrableDomain} |->
                      IF k = r.registrableDomain THEN v ELSE kv[k]]

\* the module is linked and evaluated
LoadModule ==
    /\ dir.pc = "load"
    /\ dir' = [dir EXCEPT !.pc = IF LoadFails(dir.build) THEN "loadfailed" ELSE "discover"]
    /\ UNCHANGED <<mainVars, pickVars, exVars, utilVars>>

\* collectSubdirectories has returned
Discover ==
    /\ dir.pc = "discover"
    /\ dir' = [dir EXCEPT !.pc = "harvest"]
    /\ UNCHANGED <<mainVars, pickVars, exVars, utilVars>>

\* a variant: the loop body without try/catch
Harvest_NoCatch ==
    /\ dir.pc = "harvest"
    /\ dir.idx <= Len(dir.subdirs)
    /\ LET u   == dir.subdirs[dir.idx]
           got == collectDirectory(u)
       IN  IF got.threw
           THEN dir' = [dir EXCEPT !.pc = "crashed"]
           ELSE dir' = [dir EXCEPT !.all = @ \o WithSource(got.items, u.url),
                                   !.idx = @ + 1]
    /\ UNCHANGED <<mainVars, pickVars, exVars, utilVars>>

\* one iteration of the harvest loop
Harvest ==
    /\ dir.pc = "harvest"
    /\ dir.idx <= Len(dir.subdirs)
    /\ LET u   == dir.subdirs[dir.idx]
           got == collectDirectory(u)
       IN  IF got.threw
           THEN dir' = [dir EXCEPT !.warnings = @ + 1, !.idx = @ + 1]
           ELSE dir' = [dir EXCEPT !.all = @ \o WithSource(got.items, u.url),
                                   !.idx = @ + 1]
    /\ UNCHANGED <<mainVars, pickVars, exVars, utilVars>>

\* the three writeFileSync calls after the loop
WriteOutput ==
    /\ dir.pc = "harvest"
    /\ dir.idx > Len(dir.subdirs)
    /\ dir' = [dir EXCEPT !.pc = "done",
                          !.written = {"directory-collect.jsonl", "directory-collect.csv",
                                       "domain-index.json"},
                          !.index = KvIndex(dir.all)]
    /\ UNCHANGED <<mainVars, pickVars, exVars, utilVars>>

-----------------------------------------------------------------------------
(* The module-level regular expressions of extractors.js and their scan     *)
(* position.  A text is the sequence of what the expressions match in it:   *)
(* "title", "name", "email", "phone", or "x" for anything else; "bang" is   *)
(* text on which the call throws after its scans (as in findFullNameByFirst).*)

Regexes == {"EMAIL", "NAME", "PHONE", "TITLE"}

\* what an expression matches
KindOf(rx) ==
    CASE rx = "EMAIL" -> "email" [] rx = "NAME" -> "name"
      [] rx = "PHONE" -> "phone" [] rx = "TITLE" -> "title"

\* a variant: DIRECTOR_TITLE_REGEX with the g flag too
Global_All(rx) == TRUE

\* the g flag: EMAIL_REGEX /gi, NAME_REGEX /g, PHONE_REGEX /g; DIRECTOR_TITLE_REGEX /i
Global(rx) == rx \in {"EMAIL", "NAME", "PHONE"}

\* the positions after index from where rx matches
Positions(rx, text, from) == { p \in (from + 1)..Len(text) : text[p] = KindOf(rx) }

\* RegExp.prototype.exec and test: with the g flag the scan starts at
\* lastIndex and leaves it after the match, or at 0 when there is none;
\* without it the scan starts at 0 and lastIndex stays
Exec(rx, text, lastIndex) ==
    LET ps == Positions(rx, text, IF Global(rx) THEN lastIndex ELSE 0)
    IN  IF ps = {}
        THEN [found |-> FALSE, pos |-> 0, lastIndex |-> IF Global(rx) THEN 0 ELSE lastIndex]
        ELSE LET p == CHOOSE q \in ps : \A o \in ps : q <= o
             IN  [found |-> TRUE, pos |-> p,
                  lastIndex |-> IF Global(rx) THEN p ELSE lastIndex]

\* String.prototype.match: with the g flag all the matches from index 0, and
\* lastIndex is 0 afterwards; without it, as exec
Match(rx, text, lastIndex) ==
    IF Global(rx) THEN [all |-> Positions(rx, text, 0), lastIndex |-> 0]
    ELSE LET e == Exec(rx, text, lastIndex)
         IN  [all |-> IF e.found THEN {e.pos} ELSE {}, lastIndex |-> e.lastIndex]

\* while ((m = NAME_REGEX.exec(text)) !== null)
RECURSIVE ExecLoop(_, _, _)
ExecLoop(rx, text, lastIndex) ==
    LET e == Exec(rx, text, lastIndex)
    IN  IF ~e.found THEN [all |-> {}, lastIndex |-> e.lastIndex]
        ELSE LET rest == ExecLoop(rx, text, e.lastIndex)
             IN  [all |-> {e.pos} \cup rest.all, lastIndex |-> rest.lastIndex]

\* findNamesNear: NAME_REGEX.lastIndex = 0, then the loop
findNamesNear(text) == ExecLoop("NAME", text, 0)

\* the scans of one extraction call on a text, in the order of the code, from
\* the scan positions last: the block test, the names around the title (its
\* own title expression is made anew by each call), the e-mail and the phone
\* of the block, the title of the candidate and its test in scoreCandidate.
\* [result, last, leftover]: leftover when exec or test entered an expression
\* whose lastIndex was not 0.
ExtractionScan(text, last) ==
    LET block  == Exec("TITLE", text, last["TITLE"])
        names  == IF \E p \in 1..Len(text) : text[p] = "title"
                  THEN findNamesNear(text)
                  ELSE [all |-> {}, lastIndex |-> last["NAME"]]
        email  == Match("EMAIL", text, last["EMAIL"])
        phone  == Match("PHONE", text, last["PHONE"])
        raised == \E p \in 1..Len(text) : text[p] = "bang"
        title  == Match("TITLE", text, block.lastIndex)
        scored == Exec("TITLE", <<"title">>, title.lastIndex)
    IN  [result   |-> IF raised THEN [raised |-> TRUE]
                      ELSE [raised |-> FALSE, isBlock |-> block.found, names |-> names.all,
                            email |-> email.all, phone |-> phone.all, title |-> title.all,
                            titleBonus |-> title.all # {} /\ scored.found],
         last     |-> [rx \in Regexes |->
                          CASE rx = "NAME"  -> names.lastIndex
                            [] rx = "EMAIL" -> email.lastIndex
                            [] rx = "PHONE" -> phone.lastIndex
                            [] rx = "TITLE" -> IF raised THEN block.lastIndex
                                               ELSE scored.lastIndex],
         leftover |-> \/ last["TITLE"] # 0
                      \/ (~raised /\ title.lastIndex # 0)]

\* the texts extraction is called on
Texts ==
    { <<"title", "name">>, <<"name", "title", "name">>, <<"x", "title", "email", "phone">>,
      <<"name", "x">>, <<"title", "name", "bang">>, <<"email", "title", "title">>, <<>> }

\* one more call of extractDirectorCandidates; a call runs to its end before
\* the next one starts (it has no await)
ScanCall ==
    /\ utArgs.fn = "extractDirectorCandidates"
    /\ Len(utResult.results) < Len(utArgs.texts)
    /\ LET out == ExtractionScan(utArgs.texts[Len(utResult.results) + 1], utResult.last)
       IN  utResult' = [results  |-> Append(utResult.results, out.result),
                        last     |-> out.last,
                        leftover |-> utResult.leftover \/ out.leftover]
    /\ UNCHANGED <<utArgs, mainVars, pickVars, exVars, dirVars>>

-----------------------------------------------------------------------------
(* Specifications *)

MainIdle ==
    /\ pc = "idle"
    /\ input = NoFile
    /\ fallback = NoFile
    /\ world = "full"
    /\ domains = <<>>
    /\ config = NoSettings
    /\ domainStates = <<>>
    /\ queue = <<>>
    /\ seen = {}
    /\ running = {}
    /\ handled = {}
    /\ records = <<>>
    /\ loopIdx = 1
    /\ exitCode = -1

PickIdle ==
    /\ pbState = [emails |-> <<>>, pagesCrawled |-> 0, candidates |-> <<>>]
    /\ pbResult = [called |-> FALSE, index |-> 0]

ExtractIdle ==
    /\ exArgs = [page |-> Page, pageUrl |-> <<>>, keywords |-> <<>>, siteHostname |-> <<>>]
    /\ exResult = [called |-> FALSE, raised |-> FALSE, list |-> <<>>]

UtilIdle ==
    /\ utArgs = [fn |-> "none"]
    /\ utResult = [called |-> FALSE, value |-> <<>>]

DirIdle ==
    dir = [pc |-> "idle", build |-> "esm", subdirs |-> <<>>, idx |-> 1, all |-> <<>>,
           warnings |-> 0, written |-> {}, index |-> <<>>]

\* a run of the actor
Init ==
    /\ pc = "load"
    /\ input \in Inputs
    /\ fallback = NoFile
    /\ world \in Worlds
    /\ domains = <<>>
    /\ config = NoSettings
    /\ domainStates = <<>>
    /\ queue = <<>>
    /\ seen = {}
    /\ running = {}
    /\ handled = {}
    /\ records = <<>>
    /\ loopIdx = 1
    /\ exitCode = -1
    /\ PickIdle
    /\ ExtractIdle
    /\ UtilIdle
    /\ DirIdle

Next ==
    \/ LoadInput
    \/ SeedDomain
    \/ StartRequest
    \/ FailRequest
    \/ RequestHandler
    \/ EnqueueLinks
    \/ CrawlDone
    \/ OutputRecord
    \/ Exit

Spec == Init /\ [][Next]_vars

\* a call of pickBestCandidate on any DomainState
PickInit ==
    /\ MainIdle
    /\ ExtractIdle
    /\ UtilIdle
    /\ DirIdle
    /\ pbState \in PickStates
    /\ pbResult = [called |-> FALSE, index |-> 0]

PickNext == PickBest

SpecPick == PickInit /\ [][PickNext]_vars

\* a call of extractDirectorCandidates on any page, URL and host name
ExtractInit ==
    /\ MainIdle
    /\ PickIdle
    /\ UtilIdle
    /\ DirIdle
    /\ exArgs \in ExtractArgs
    /\ exResult = [called |-> FALSE, raised |-> FALSE, list |-> <<>>]

ExtractNext == ExtractCall

SpecExtract == ExtractInit /\ [][ExtractNext]_vars

\* a call of normalizePhone on any raw text
PhoneInit ==
    /\ MainIdle
    /\ PickIdle
    /\ ExtractIdle
    /\ DirIdle
    /\ utArgs \in PhoneArgs
    /\ utResult = [called |-> FALSE, value |-> <<>>]

PhoneNext == NormalizePhoneCall

SpecPhone == PhoneInit /\ [][PhoneNext]_vars

\* a call of emailIsOnDomain on any e-mail string and host name
EmailInit ==
    /\ MainIdle
    /\ PickIdle
    /\ ExtractIdle
    /\ DirIdle
    /\ utArgs \in EmailArgs
    /\ utResult = [called |-> FALSE, value |-> <<>>]

EmailNext == EmailIsOnDomainCall

SpecEmail == EmailInit /\ [][EmailNext]_vars

\* a call of normalizeAndDedupe on any list
DedupeInit ==
    /\ MainIdle
    /\ PickIdle
    /\ ExtractIdle
    /\ DirIdle
    /\ utArgs \in DedupeArgs
    /\ utResult = [called |-> FALSE, value |-> <<>>]

DedupeNext == NormalizeAndDedupeCall

SpecDedupe == DedupeInit /\ [][DedupeNext]_vars

\* a call of dedupeByDomain on any list of listings
DirDedupeInit ==
    /\ MainIdle
    /\ PickIdle
    /\ ExtractIdle
    /\ DirIdle
    /\ utArgs \in DirDedupeArgs
    /\ utResult = [called |-> FALSE, value |-> <<>>]

DirDedupeNext == DedupeByDomainCall

SpecDirDedupe == DirDedupeInit /\ [][DirDedupeNext]_vars

\* a run of the directory collector
DirInit ==
    /\ MainIdle
    /\ PickIdle
    /\ ExtractIdle
    /\ UtilIdle
    /\ \E l \in SubdirLists, b \in Builds :
          dir = [pc |-> "load", build |-> b, subdirs |-> l, idx |-> 1, all |-> <<>>,
                 warnings |-> 0, written |-> {}, index |-> <<>>]

\* extraction calls one after another, the module just loaded
RegexInit ==
    /\ MainIdle
    /\ PickIdle
    /\ ExtractIdle
    /\ DirIdle
    /\ utArgs \in [fn : {"extractDirectorCandidates"}, texts : SeqsUpTo(Texts, MaxCalls)]
    /\ utResult = [results |-> <<>>, last |-> [rx \in Regexes |-> 0], leftover |-> FALSE]

RegexNext == ScanCall

SpecRegex == RegexInit /\ [][RegexNext]_vars

DirNext == LoadModule \/ Discover \/ Harvest \/ WriteOutput

SpecDirectory == DirInit /\ [][DirNext]_vars

-----------------------------------------------------------------------------
(* Properties *)

Confidences(state) == [i \in 1..Len(state.candidates) |-> state.candidates[i].confidence]

IsMaximum(cs, i) == \A j \in 1..Len(cs) : cs[j] <= cs[i]

\* C1: on a non-empty candidate sequence pickBestCandidate returns the
\* candidate of highest confidence, and of several with that confidence the
\* one at the lowest index.
C1_PicksFirstMaximum ==
    LET cs == Confidences(pbState)
    IN  (pbResult.called /\ cs # <<>>) =>
            /\ pbResult.index \in 1..Len(cs)
            /\ IsMaximum(cs, pbResult.index)
            /\ \A j \in 1..(pbResult.index - 1) : cs[j] < cs[pbResult.index]

\* the host name of the site an input domain names
SiteHost(domain) == ParseUrl(toAbsoluteUrl(domain)).hostname

\* the host of the address a string starts with: what follows the first "@",
\* up to the first character no host name has
AddressHost(email) ==
    LET at   == IndexOf(email, "@")
        rest == SubSeq(email, at + 1, Len(email))
        NotHost(i) == rest[i] \in {"?", "=", "@", "/", "sp"}
        ends == { i \in 1..Len(rest) : NotHost(i) }
    IN  IF ends = {} THEN rest
        ELSE SubSeq(rest, 1, (CHOOSE i \in ends : \A j \in ends : i <= j) - 1)

OnSite(email, host) ==
    getRegistrableDomain(AddressHost(email)) = getRegistrableDomain(host)

\* C2: an e-mail whose host has another registrable domain than the site is
\* the e-mail of no candidate accumulated for the domain and is in no
\* allEmails list of the domain's record.
C2_NoOffDomainEmail ==
    /\ \A d \in DOMAIN domainStates :
          \A i \in 1..Len(domainStates[d].candidates) :
              LET c == domainStates[d].candidates[i]
              IN  c.email # NoEmail => OnSite(c.email, ParseUrl(c.pageUrl).hostname)
    /\ \A i \in 1..Len(records) :
          \A k \in 1..Len(records[i].allEmails) :
              OnSite(records[i].allEmails[k], SiteHost(records[i].inputDomain))

RecordsOf(d) == { i \in 1..Len(records) : records[i].inputDomain = d }

\* C3: once the run is over, each input domain has exactly one output record.
C3_OneRecordPerDomain ==
    /\ \A d \in Range(domains) : Cardinality(RecordsOf(d)) <= 1
    /\ pc \in {"done", "crashed"} =>
          \A d \in Range(domains) : Cardinality(RecordsOf(d)) = 1

\* C4: a domain whose pages gave no candidate still gets its record once the
\* run is over, with a null bestContact and every on-domain e-mail of its
\* pages in allEmails; a null bestContact means exactly that the candidate
\* sequence was empty.
C4_NoCandidatesIsNoError ==
    /\ \A i \in 1..Len(records) :
          LET r  == records[i]
              st == domainStates[r.inputDomain]
          IN  /\ (r.bestContact = <<>>) <=> (Len(st.candidates) = 0)
              /\ \A k \in 1..Len(st.emails) :
                    OnSite(st.emails[k], SiteHost(r.inputDomain))
                        => st.emails[k] \in Range(r.allEmails)
    /\ pc \in {"done", "crashed"} =>
          \A d \in Range(domains) :
              (domainStates[d].pagesCrawled > 0 /\ domainStates[d].candidates = <<>>)
                  => RecordsOf(d) # {}

DomainsOfInput ==
    normalizeAndDedupe(IF Has(input, "domains") THEN input.domains ELSE <<>>)

\* C5: when the domain list is empty after the fallbacks, the run has exited
\* with status 1 and has created, enqueued, handled and emitted nothing.
C5_NoDomainsExits ==
    (pc # "load" /\ DomainsOfInput = <<>>) =>
        /\ pc = "exited"
        /\ exitCode = 1
        /\ DOMAIN domainStates = {}
        /\ queue = <<>>
        /\ seen = {}
        /\ running = {}
        /\ handled = {}
        /\ records = <<>>

\* the input had no list and the fallback file an empty one
C5_Witness ==
    /\ pc = "exited"
    /\ exitCode = 1
    /\ fallback # NoFile
    /\ Has(fallback, "domains")
    /\ DomainsOfInput = <<>>

\* C6: no input domain string makes the run end in an uncaught exception.
C6_MalformedNeverPropagates == pc # "crashed"

\* C7: extractDirectorCandidates raises on no input.
C7_NeverRaises == ~exResult.raised

\* the first index of raw whose key is that of c
FirstWithKey(raw, key) ==
    CHOOSE k \in 1..Len(raw) :
        /\ <<LowerStr(raw[k].fullName), LowerStr(raw[k].title), toLowerCase(raw[k].email)>> = key
        /\ \A j \in 1..(k - 1) :
              <<LowerStr(raw[j].fullName), LowerStr(raw[j].title), toLowerCase(raw[j].email)>> # key

TripleOf(c) == <<LowerStr(c.fullName), LowerStr(c.title), toLowerCase(c.email)>>

\* C8: the returned list holds no two candidates with the same (fullName,
\* title, email) compared without case; each triple of the raw candidates is
\* there once, as the first raw candidate that had it.
C8_DedupedByTriple ==
    LET raw  == RawCandidates(exArgs.page, exArgs.pageUrl, exArgs.siteHostname)
        list == exResult.list
    IN  (exResult.called /\ ~exResult.raised) =>
            /\ \A i, j \in 1..Len(list) : i # j => TripleOf(list[i]) # TripleOf(list[j])
            /\ \A k \in 1..Len(raw) :
                  \E i \in 1..Len(list) :
                      /\ TripleOf(list[i]) = TripleOf(raw[k])
                      /\ [list[i] EXCEPT !.confidence = 0]
                            = raw[FirstWithKey(raw, TripleOf(raw[k]))]
            /\ \A i \in 1..Len(list) :
                  \E k \in 1..Len(raw) : TripleOf(list[i]) = TripleOf(raw[k])

\* two raw candidates differ only by case, and the first one is the one kept
C8_Witness ==
    LET raw  == RawCandidates(exArgs.page, exArgs.pageUrl, exArgs.siteHostname)
        list == exResult.list
    IN  /\ exResult.called
        /\ ~exResult.raised
        /\ \E a, b \in 1..Len(raw) :
              /\ a < b
              /\ raw[a].fullName = "Jane Doe"
              /\ raw[b].fullName = "JANE DOE"
              /\ TripleOf(raw[a]) = TripleOf(raw[b])
              /\ \E i \in 1..Len(list) : list[i].fullName = "Jane Doe"
              /\ \A i \in 1..Len(list) : list[i].fullName # "JANE DOE"
        /\ Len(list) < Len(raw)

AllRequests == Range(queue) \cup { t.req : t \in running } \cup handled

PageOf(r) == Fetch(world, r.url).page

\* C9: with maxDepth >= 0 every request has a depth in 0..maxDepth; a request
\* of depth 0 is a seed of its domain, one of depth d + 1 is a link of a page
\* handled at depth d; no handler of a page at depth maxDepth enqueues links.
C9_DepthBounded ==
    (pc \notin {"load", "idle"} /\ maxDepth >= 0) =>
        /\ \A r \in AllRequests : r.depth >= 0 /\ r.depth <= maxDepth
        /\ \A d \in Range(domains) :
              LET seeds == Range(buildSeedUrlsForDomain(d, prioritizedKeywords))
              IN  \A r \in AllRequests :
                      (r.rootDomain = d /\ r.depth = 0) => r.url \in seeds
        /\ \A r \in AllRequests :
              r.depth > 0 =>
                  \E p \in handled :
                      /\ p.rootDomain = r.rootDomain
                      /\ p.depth = r.depth - 1
                      /\ r.url \in Range(PageOf(p).links)
        /\ \A t \in running : t.phase = "enqueue" => t.req.depth < maxDepth

\* with maxDepth 1 the staff page was handled at depth 1 and its team link,
\* which passes every filter, was never enqueued
C9_Witness ==
    /\ pc = "done"
    /\ maxDepth = 1
    /\ \E p \in handled :
          /\ p.depth = 1
          /\ p.url = Camp \o <<"/", "staff">>
          /\ Fetch(world, p.url).status = "ok"
          /\ LinkRequests(p, PageOf(p).links) # <<>>
          /\ \A i \in 1..Len(LinkRequests(p, PageOf(p).links)) :
                LinkRequests(p, PageOf(p).links)[i].url \notin seen

\* C10: no domain has more pages handled than maxRequestsPerDomain.
C10_PerDomainCap ==
    pc \notin {"load", "idle"} =>
        \A d \in DOMAIN domainStates : domainStates[d].pagesCrawled <= maxRequestsPerDomain

\* the bonuses a candidate earns, the URL bonus for the path of the page URL
BonusSum(c, pathname, keywords) ==
      (IF c.title # NoTitle /\ TitleRegexTest(c.title) THEN TitleBonus ELSE 0)
    + (IF c.email # NoEmail THEN EmailBonus ELSE 0)
    + (IF c.phone # NoPhone THEN PhoneBonus ELSE 0)
    + (IF c.source \in {"name-then-title", "title-then-name"} THEN PatternBonus ELSE 0)
    + (IF \E i \in 1..Len(keywords) : IsInfix(toLowerCase(keywords[i]), toLowerCase(pathname))
       THEN UrlBonus ELSE 0)
    + (IF c.ctxCampDirector THEN ContextBonus ELSE 0)

\* C11: the confidence of each returned candidate is the sum of its bonuses:
\* 50 title, 10 e-mail, 6 phone, 25 adjacent pattern, 8 "camp director" in
\* the context, and 10 exactly when the path of the page URL contains a
\* prioritized keyword.
C11_ConfidenceIsBonusSum ==
    (exResult.called /\ ~exResult.raised) =>
        \A i \in 1..Len(exResult.list) :
            exResult.list[i].confidence
                = BonusSum(exResult.list[i], ParseUrl(exArgs.pageUrl).pathname, exArgs.keywords)

DigitsOf(raw) == SelectSeq(raw, LAMBDA ch : ch \in {"0", "1", "2", "3", "4", "5", "6", "7", "8", "9"})

\* C12: with D the digits of the raw text, normalizePhone returns
\* (AAA) BBB-CCCC from D when D has 10 digits, +1 (AAA) BBB-CCCC from the
\* last 10 when D has 11 digits and starts with 1, and no value otherwise.
C12_PhoneFormat ==
    LET D == DigitsOf(utArgs.raw)
        v == utResult.value
    IN  (utArgs.fn = "normalizePhone" /\ utResult.called) =>
            IF Len(D) = 10
            THEN v = <<"(", D[1], D[2], D[3], ")", " ", D[4], D[5], D[6], "-",
                       D[7], D[8], D[9], D[10]>>
            ELSE IF Len(D) = 11 /\ D[1] = "1"
            THEN v = <<"+", "1", " ", "(", D[2], D[3], D[4], ")", " ", D[5], D[6], D[7], "-",
                       D[8], D[9], D[10], D[11]>>
            ELSE v = <<>>

\* "+1 (555) 012-3456" was normalized to itself
C12_Witness ==
    /\ utArgs.fn = "normalizePhone"
    /\ utResult.called
    /\ utArgs.raw = <<"+", "1", " ", "(", "5", "5", "5", ")", " ", "0", "1", "2",
                      "3", "4", "5", "6">>
    /\ utResult.value = <<"+", "1", " ", "(", "5", "5", "5", ")", " ", "0", "1", "2", "-",
                          "3", "4", "5", "6">>

\* where the labels (the non-empty parts between dots) of a name start
LabelStarts(l) == { i \in 1..Len(l) : l[i] # "." /\ (i = 1 \/ l[i - 1] = ".") }

LabelAt(l, i) ==
    SubSeq(l, i, CHOOSE j \in i..Len(l) :
                    /\ \A k \in i..j : l[k] # "."
                    /\ (j = Len(l) \/ l[j + 1] = "."))

\* the last two labels of the lower-cased name, all of them if there are at
\* most two, nothing for an empty name
LastTwoLabels(name) ==
    LET l      == toLowerCase(name)
        starts == LabelStarts(l)
    IN  IF starts = {} THEN <<>>
        ELSE LET last == CHOOSE i \in starts : \A j \in starts : j <= i
                 rest == starts \ {last}
             IN  IF rest = {} THEN LabelAt(l, last)
                 ELSE LabelAt(l, CHOOSE i \in rest : \A j \in rest : j <= i)
                      \o <<".">> \o LabelAt(l, last)

\* what stands between the first "@" of an e-mail string and the next one
HostPart(email) ==
    LET ats == { i \in 1..Len(email) : email[i] = "@" }
    IN  IF ats = {} THEN <<>>
        ELSE LET first == CHOOSE i \in ats : \A j \in ats : i <= j
                 later == ats \ {first}
                 stop  == IF later = {} THEN Len(email) + 1
                          ELSE CHOOSE i \in later : \A j \in later : i <= j
             IN  SubSeq(email, first + 1, stop - 1)

\* C13 as stated: for every e-mail string and site host name, emailIsOnDomain
\* is true exactly when the last two labels of the e-mail's host part,
\* lower-cased, are those of the site host name (nothing for a missing one).
C13_OnDomainIffSameLabels ==
    (utArgs.fn = "emailIsOnDomain" /\ utResult.called) =>
        (utResult.value <=> LastTwoLabels(HostPart(utArgs.email)) = LastTwoLabels(utArgs.host))

\* C13, amended: the same for every e-mail string that has a host part; for a
\* string without one emailIsOnDomain is false whatever the site host name.
C13_OnDomainIffHostAndSameLabels ==
    (utArgs.fn = "emailIsOnDomain" /\ utResult.called) =>
        (utResult.value <=>
            /\ HostPart(utArgs.email) # <<>>
            /\ LastTwoLabels(HostPart(utArgs.email)) = LastTwoLabels(utArgs.host))

\* info@mail.Camp.ORG is on the domain of www.camp.org
C13_Witness ==
    /\ utArgs.fn = "emailIsOnDomain"
    /\ utResult.called
    /\ utArgs.email = <<"info", "@", "mail", ".", "Camp", ".", "ORG">>
    /\ utArgs.host = <<"www", ".", "camp", ".", "org">>
    /\ utResult.value = TRUE

\* a string of white space only, the empty string included
IsBlank(str) == \A i \in 1..Len(str) : str[i] = "sp"

\* the string without the white space at its ends
Trimmed(str) ==
    LET inked == { i \in 1..Len(str) : str[i] # "sp" }
    IN  IF inked = {} THEN <<>>
        ELSE SubSeq(str, CHOOSE i \in inked : \A j \in inked : i <= j,
                         CHOOSE i \in inked : \A j \in inked : j <= i)

\* where a trimmed string first occurs in a list
FirstOccurrence(list, v) ==
    CHOOSE k \in 1..Len(list) :
        /\ Trimmed(list[k]) = v
        /\ \A j \in 1..(k - 1) : Trimmed(list[j]) # v

\* C14: the list normalizeAndDedupe returns has no empty and no blank entry,
\* has each trimmed string of the input once, and has them in the order of
\* their first occurrence in the input.
C14_DedupeDropsBlanksKeepsOrder ==
    LET list == utArgs.list
        out  == utResult.value
    IN  (utArgs.fn = "normalizeAndDedupe" /\ utResult.called) =>
            /\ \A i \in 1..Len(out) : ~IsBlank(out[i])
            /\ \A i, j \in 1..Len(out) : i # j => out[i] # out[j]
            /\ Range(out) = { Trimmed(list[k]) : k \in { n \in 1..Len(list) : ~IsBlank(list[n]) } }
            /\ \A i, j \in 1..Len(out) :
                  i < j => FirstOccurrence(list, out[i]) < FirstOccurrence(list, out[j])

\* C15: normalizeAndDedupe applied to its own result returns that result.
C15_DedupeIdempotent ==
    (utArgs.fn = "normalizeAndDedupe" /\ utResult.called) =>
        normalizeAndDedupe(utResult.value) = utResult.value

\* the key of a directory record: registrable domain, else website, else name
KeyOf(r) ==
    CASE r.registrableDomain # "" -> r.registrableDomain
      [] r.registrableDomain = "" /\ r.website # "" -> r.website
      [] OTHER -> r.name

Completeness(r) ==
    (IF r.email = "" THEN 0 ELSE 3) + (IF r.phone = "" THEN 0 ELSE 2)
        + (IF r.website = "" THEN 0 ELSE 1)

\* the first index among the records of a key that have its highest score
FirstBest(recs, key) ==
    CHOOSE k \in 1..Len(recs) :
        /\ KeyOf(recs[k]) = key
        /\ \A j \in 1..Len(recs) :
              KeyOf(recs[j]) = key =>
                  \/ Completeness(recs[j]) < Completeness(recs[k])
                  \/ (Completeness(recs[j]) = Completeness(recs[k]) /\ k <= j)

\* C16: dedupeByDomain returns one record per key of its input, records
\* without key dropped, and the record kept for a key is the first of the
\* input among those of that key with the highest completeness score.
C16_OnePerKeyFirstBest ==
    LET recs == utArgs.records
        out  == utResult.value
        keys == { KeyOf(recs[k]) : k \in 1..Len(recs) } \ {""}
    IN  (utArgs.fn = "dedupeByDomain" /\ utResult.called) =>
            /\ Len(out) = Cardinality(keys)
            /\ \A key \in keys :
                  \E i \in 1..Len(out) : out[i] = recs[FirstBest(recs, key)]
            /\ \A i \in 1..Len(out) : KeyOf(out[i]) \in keys

\* of Camp A, Camp B (same key, same score) and a listing without key, in this
\* order, only Camp A is returned
C16_Witness ==
    /\ utArgs.fn = "dedupeByDomain"
    /\ utResult.called
    /\ Len(utArgs.records) = 3
    /\ utArgs.records[1].name = "Camp A"
    /\ utArgs.records[2].name = "Camp B"
    /\ utArgs.records[3].name = ""
    /\ Len(utResult.value) = 1
    /\ utResult.value[1].name = "Camp A"

\* the records harvested so far that came from one sub-directory
RecordsFrom(u) == SelectSeq(dir.all, LAMBDA r : r.sourceDirectory = u)

WithoutSource(r) ==
    [name |-> r.name, website |-> r.website, email |-> r.email, phone |-> r.phone,
     registrableDomain |-> r.registrableDomain]

C18_PureReduction ==
    [][ /\ \A d \in DOMAIN domainStates :
              /\ d \in DOMAIN domainStates'
              /\ Range(domainStates[d].emails) \subseteq Range(domainStates'[d].emails)
              /\ Len(domainStates[d].candidates) <= Len(domainStates'[d].candidates)
              /\ SubSeq(domainStates'[d].candidates, 1, Len(domainStates[d].candidates))
                    = domainStates[d].candidates
              /\ domainStates[d].pagesCrawled <= domainStates'[d].pagesCrawled
        /\ pc = "output" => domainStates' = domainStates ]_vars

\* a domain has candidates of two pages and e-mails, and its record with a
\* best contact has been emitted
C18_Witness ==
    \E i \in 1..Len(records) :
        LET st == domainStates[records[i].inputDomain]
        IN  /\ records[i].bestContact # <<>>
            /\ st.pagesCrawled >= 2
            /\ st.emails # <<>>
            /\ \E a, b \in 1..Len(st.candidates) :
                  st.candidates[a].pageUrl # st.candidates[b].pageUrl

\* the requests whose handler has run to the end of its synchronous part
Ran == { r \in handled \cup { t.req : t \in { u \in running : u.phase = "enqueue" } } :
            Fetch(world, r.url).status = "ok" }

\* the extraction of the page of request r throws
FailsExtraction(r) == HandlerThrows(Fetch(world, r.url), r.url)

RunsOf(r) ==
    IF Fetch(world, r.url).status # "ok" THEN 0
    ELSE IF FailsExtraction(r)
         THEN (IF r \in handled THEN r.retryCount + 1 ELSE r.retryCount)
         ELSE (IF r \in Ran THEN 1 ELSE 0)

\* what one run of the handler of r adds to the e-mails and to the candidates
EmailsOfRun(r) ==
    LET resp == Fetch(world, r.url)
    IN  IF resp.contentType = "text/html" THEN extractEmailsFromHtml(resp.page) ELSE <<>>

FoundOfRun(r) ==
    LET resp == Fetch(world, r.url)
    IN  IF resp.contentType = "text/html" /\ ~FailsExtraction(r)
        THEN extractDirectorCandidates(resp.page, r.url, prioritizedKeywords,
                                       ParseUrl(r.url).hostname).list
        ELSE <<>>

\* the state of domain d is the one a sequential execution of the handler
\* runs made so far produces: every increment counted, the e-mails of every
\* run present, and the candidates of each page in one unbroken stretch
SequentialOutcome(d) ==
    LET st   == domainStates[d]
        reqs == { r \in AllRequests : r.rootDomain = d /\ RunsOf(r) > 0 }
        At(u) == { i \in 1..Len(st.candidates) : st.candidates[i].pageUrl = u }
    IN  /\ st.pagesCrawled =
              Cardinality(UNION { { <<r.url, k>> : k \in 1..RunsOf(r) } : r \in reqs })
        /\ Range(st.emails) = UNION { Range(EmailsOfRun(r)) : r \in reqs }
        /\ \A i \in 1..Len(st.candidates) : \E r \in reqs : st.candidates[i].pageUrl = r.url
        /\ \A r \in reqs :
              LET found == FoundOfRun(r)
              IN  /\ Cardinality(At(r.url)) = Len(found)
                  /\ found # <<>> =>
                        \E from \in 1..Len(st.candidates) :
                            /\ At(r.url) = from..(from + Len(found) - 1)
                            /\ SubSeq(st.candidates, from, from + Len(found) - 1) = found

\* C20: whatever the interleaving of the handlers, once the crawl is over every
\* domain's state is the outcome of running the same handler runs one after
\* another; and a step changes the state of one domain at most, that of the
\* request whose handler ran in it.
C20_SerializableAccumulation ==
    /\ [](pc \in {"output", "done", "crashed"} =>
            \A d \in DOMAIN domainStates : SequentialOutcome(d))
    /\ [][ \A d \in DOMAIN domainStates :
              (d \in DOMAIN domainStates' /\ domainStates'[d] # domainStates[d]) =>
                  /\ \E t \in running \ running' :
                        t.phase = "fetch" /\ t.req.rootDomain = d
                  /\ \A e \in DOMAIN domainStates \ {d} :
                        domainStates'[e] = domainStates[e] ]_vars

\* two handlers of the same domain are both suspended at enqueueLinks, each
\* having added candidates
C20_Witness ==
    \E t, u \in running :
        /\ t # u
        /\ t.phase = "enqueue" /\ u.phase = "enqueue"
        /\ t.req.rootDomain = u.req.rootDomain
        /\ FoundOfRun(t.req) # <<>> /\ FoundOfRun(u.req) # <<>>

\* C21: the returned list is in order of non-increasing confidence, and two
\* candidates of the same confidence are in the order in which they were
\* produced.
C21_RankedStable ==
    LET raw  == RawCandidates(exArgs.page, exArgs.pageUrl, exArgs.siteHostname)
        list == exResult.list
        Pos(c) == FirstWithKey(raw, TripleOf(c))
    IN  (exResult.called /\ ~exResult.raised) =>
            \A i, j \in 1..Len(list) :
                i < j => /\ list[i].confidence >= list[j].confidence
                         /\ list[i].confidence = list[j].confidence
                               => Pos(list[i]) < Pos(list[j])

\* the list has two candidates of one confidence after one of a higher
\* confidence that was produced later
C21_Witness ==
    LET raw  == RawCandidates(exArgs.page, exArgs.pageUrl, exArgs.siteHostname)
        list == exResult.list
        Pos(c) == FirstWithKey(raw, TripleOf(c))
    IN  /\ exResult.called
        /\ ~exResult.raised
        /\ \E i, j \in 1..Len(list) :
              i < j /\ list[i].confidence = list[j].confidence
        /\ \E i, j \in 1..Len(list) :
              i < j /\ list[i].confidence > list[j].confidence
                    /\ Pos(list[i]) > Pos(list[j])

\* the first non-empty result among the strategies in their order: the
\* adjacent pattern and the window on the text of the block, the same two on
\* the text of its neighbours, the container scan, the e-mail-derived name
FirstNonEmpty(ss) ==
    IF \A i \in 1..Len(ss) : ss[i] = <<>> THEN <<>>
    ELSE ss[CHOOSE i \in 1..Len(ss) : ss[i] # <<>> /\ \A j \in 1..(i - 1) : ss[j] = <<>>]

WinningStrategy(el, siteHostname) ==
    FirstNonEmpty(<<el.direct, el.around, el.sibDirect, el.sibAround, el.container,
                    IF BlockEmail(el, siteHostname) # NoEmail THEN el.neighbor ELSE <<>>>>)

\* C22: when blocks yield the candidates, the names returned (compared
\* without case, as the deduplication does) are those of the first strategy
\* with a result, block by block: no name of a later strategy is among them.
C22_FirstStrategyWins ==
    LET blocks == SelectSeq(exArgs.page.elements, IsBlock)
        list   == exResult.list
        won    == UNION { Range(WinningStrategy(blocks[i], exArgs.siteHostname)) :
                              i \in 1..Len(blocks) }
    IN  (exResult.called /\ ~exResult.raised /\ won # {}) =>
            { LowerStr(list[i].fullName) : i \in 1..Len(list) }
                = { LowerStr(n.fullName) : n \in won }

\* the names found in or around the elements of the page that lie in no
\* nav/header/footer container, in the body text and next to mailto links
NamesOutsideNav(page) ==
    UNION { { n.fullName : n \in Range(page.elements[i].direct \o page.elements[i].around
                                          \o page.elements[i].sibDirect
                                          \o page.elements[i].sibAround
                                          \o page.elements[i].container
                                          \o page.elements[i].neighbor) } :
              i \in { k \in 1..Len(page.elements) : page.elements[k].navAt = 0 } }
    \cup { n.fullName : n \in Range(page.bodyDirect \o page.bodyAround) }
    \cup UNION { { n.fullName : n \in Range(page.mailtos[i].nameNear) } :
                    i \in 1..Len(page.mailtos) }

\* C23: no element with a nav/header/footer container at or above it, however
\* far up, is a block, and the returned candidates carry no name that only
\* such elements hold.
C23_NoBlockInsideNav ==
    LET page == exArgs.page
        list == exResult.list
    IN  (exResult.called /\ ~exResult.raised) =>
            /\ \A i \in 1..Len(page.elements) :
                  page.elements[i].navAt >= 1 => ~IsBlock(page.elements[i])
            /\ \A i \in 1..Len(list) : list[i].fullName \in NamesOutsideNav(page)

\* the registrable domain of the website a row links to
DomainOfHref(href) ==
    CASE href = "https://camp.org"       -> "camp.org"
      [] href = "https://www.camp.org/x" -> "camp.org"
      [] OTHER                           -> ""

\* the rows of the pages scraped so far that list domain d
RowsListing(d) ==
    UNION { { r \in Range(dir.subdirs[i].rows) : DomainOfHref(r.href) = d } :
              i \in { k \in 1..(dir.idx - 1) : dir.subdirs[k].outcome = "ok" } }

RowScore(r) ==
    (IF r.mailto # "" THEN 3 ELSE 0) + (IF r.phone # "" THEN 2 ELSE 0)
        + (IF r.href # "" THEN 1 ELSE 0)

\* C24: when the files are written, no two written records share a non-empty
\* registrable domain, and every registrable domain listed on a scraped page
\* has its record: one of the most complete listed for it, in the record set
\* and in the index.
C24_WrittenSetDeduplicated ==
    dir.pc = "done" =>
        /\ \A k, l \in 1..Len(dir.all) :
              (k # l /\ dir.all[k].registrableDomain # "")
                  => dir.all[k].registrableDomain # dir.all[l].registrableDomain
        /\ \A d \in { DomainOfHref(h) : h \in {"https://camp.org", "https://www.camp.org/x"} } :
              RowsListing(d) # {} =>
                  \E k \in 1..Len(dir.all) :
                      /\ dir.all[k].registrableDomain = d
                      /\ \A r \in RowsListing(d) : Completeness(dir.all[k]) >= RowScore(r)
                      /\ d \in DOMAIN dir.index
                      /\ dir.index[d].name = dir.all[k].name

\* C25: every request the crawler holds, seed or link, has a URL on the host
\* of its rootDomain (a leading "www." apart), and its rootDomain is one of the
\* input domains.
C25_RequestsStayOnDomain ==
    \A r \in AllRequests :
        /\ isSameDomain(r.url, r.rootDomain)
        /\ r.rootDomain \in Range(domains)

\* C26: whatever calls came before, each extraction call returns what the
\* same call returns when it is the first one, and no module-level expression
\* is entered with a scan position left over.
C26_NoScanStateCarried ==
    /\ ~utResult.leftover
    /\ \A i \in 1..Len(utResult.results) :
          utResult.results[i]
              = ExtractionScan(utArgs.texts[i], [rx \in Regexes |-> 0]).result

\* a call that found a title and names followed a call that threw after its
\* scans, itself after a call that found a title before the end of its text
C26_Witness ==
    /\ Len(utResult.results) = 3
    /\ ~utResult.results[1].raised /\ utResult.results[1].isBlock
    /\ Len(utArgs.texts[1]) > 1
    /\ utResult.results[2].raised
    /\ ~utResult.results[3].raised
    /\ utResult.results[3].isBlock
    /\ Cardinality(utResult.results[3].names) = 2

=============================================================================
